---- MODULE Spec2Model ----
(***************************************************************************)
(* A model of sc2-proxy: the Supervisor control loop (src/src/supervisor.rs)*)
(* with its playlist, lobbies and games, the Game task                     *)
(* (src/src/game/game.rs), the Player forwarding loop                      *)
(* (src/src/game/player.rs) and the lobby handshake                        *)
(* (src/src/game/lobby.rs).                                                *)
(*                                                                         *)
(* Four specifications share the module, each over its own variables and   *)
(* with the other components' variables held at their idle values:         *)
(*   Spec        the Supervisor and, coarsely, the tasks of its games      *)
(*   SpecGame    one Game task with its Player tasks as message sources    *)
(*   SpecPlayer  one Player.run loop, frame by frame                       *)
(*   SpecLobby   one lobby handshake, frame by frame                       *)
(***************************************************************************)
EXTENDS Integers, Sequences, FiniteSets, TLC

\* ------------------------------------------------------------------------
\* Bounds of the model
\* ------------------------------------------------------------------------

\* Client connections the proxy listener ever accepts.
NumClients == 2

\* create_lobby is not called once id_counter has reached this value.
MaxGameId == 2

\* Participants of the game SpecGame runs and of the lobby SpecLobby starts.
MaxPlayers == 2

\* Messages waiting in the ToGame channel of SpecGame.
MaxQueue == 2

\* Requests the client of SpecPlayer sends before it stops.
MaxRequests == 2

\* ------------------------------------------------------------------------
\* State
\* ------------------------------------------------------------------------

\* The Supervisor (src/src/supervisor.rs)
VARIABLES
    config,        \* Supervisor.config: [mode, map_ok]
    games,         \* Supervisor.games: GameId -> handle and task of the game
    lobbies,       \* Supervisor.lobbies: GameId -> GameLobby
    playlist,      \* Supervisor.playlist: sequence of [client, req]
    id_counter,    \* Supervisor.id_counter
    sv_pc,         \* the control loop: "loop", "panicked" or "closed"
    up_i,          \* update_playlist: the index polled next, 0 outside a pass
    incoming,      \* clients the listener has not handed over yet
    dropped,       \* clients whose connection has been dropped (closed)
    detached,      \* clients held by Player tasks of a game whose task died
    nonblocking,   \* per client socket: TRUE in non-blocking mode
    created        \* history: the ids create_lobby returned, in call order

svVars == <<config, games, lobbies, playlist, id_counter, sv_pc, up_i, incoming, dropped, detached, nonblocking, created>>

\* One Game task (src/src/game/game.rs), its channels
\* (src/src/game/messaging.rs) and its Handle (src/src/game/mod.rs)
VARIABLES
    the_game    \* the Game task, its channels and its Handle, a record with the fields below

gameVars == <<the_game>>

\* self.players.len()
g_players == the_game.g_players

\* computer players of the match
g_computers == the_game.g_computers

\* the player results the engines of the match report, by player id
engine_results == the_game.engine_results

\* Game::run's player_results: "None" or a PlayerResult per entry
player_results == the_game.player_results

\* the ToGame channel, players to game
rx == the_game.rx

\* the FromSupervisor channel
from_sv == the_game.from_sv

\* the ToPlayer channels, game to each player
to_player == the_game.to_player

\* the GameResult channel
result_rx == the_game.result_rx

\* history: every GameResult sent
result_log == the_game.result_log

\* Game::run: "loop", "join", "done" or "panicked"
g_pc == the_game.g_pc

\* the Player task handles joined so far
joined == the_game.joined

\* Game::run's result_players, by player index
g_result_players == the_game.g_result_players

\* per Player task: "running", "some", "none" or "panicked"
p_st == the_game.p_st

\* per Player, its engine: "running", "killed" or "exited"
process == the_game.process

\* the Handle: "held", "quit_sent", "dropped" or "collected"
handle == the_game.handle

\* history: the results Handle::check has recorded
collected == the_game.collected

\* One Player::run (src/src/game/player.rs)
VARIABLES
    the_player    \* the Player and what it has exchanged, a record with the fields below

playerVars == <<the_player>>

\* config.match_defaults.request_limits
request_limits == the_player.request_limits

\* "recv" (client_get_request), "query" (sc2_recv), "some", "none" or "panicked"
pl_pc == the_player.pl_pc

\* history: the requests read from the client
requests == the_player.requests

\* history: the requests sent to the engine
to_engine == the_player.to_engine

\* history: the responses the engine produced
engine_out == the_player.engine_out

\* history: the frames sent to the client
client_frames == the_player.client_frames

\* history: the ToGameContent sent to the game
to_game == the_player.to_game

\* the ToPlayer channel of this Player
gamec_rx == the_player.gamec_rx

\* FALSE once the Game task has ended and dropped its channel ends
game_open == the_player.game_open

\* the engine process: "running", "killed" or "exited"
pl_process == the_player.pl_process

\* Player.sc2_status: "None" or a Status
sc2_status == the_player.sc2_status

\* One GameLobby::start (src/src/game/lobby.rs)
VARIABLES
    the_lobby    \* the GameLobby and its handshake, a record with the fields below

lobbyVars == <<the_lobby>>

\* GameLobby.players: the race of each participant's PlayerData
lb_players == the_lobby.lb_players

\* GameLobby.computer_players.len()
lb_computers == the_lobby.lb_computers

\* "create", "send", "recv", "started" or "panicked"
lb_pc == the_lobby.lb_pc

\* join_all_game: the JoinGame requests sent
lb_sent == the_lobby.lb_sent

\* join_all_game: the JoinGame responses read
lb_read == the_lobby.lb_read

\* per engine: "none" or the JoinGame response it has produced
join_resp == the_lobby.join_resp

\* history: the frames of the handshake, in order
lb_log == the_lobby.lb_log

\* The config snapshots (src/src/supervisor.rs, src/src/game/lobby.rs)
VARIABLES
    cf    \* the Supervisor as far as configs go, a record of
          \*   config: Supervisor.config
          \*   lobbies: Supervisor.lobbies, GameId -> [config, players]; a Player
          \*            is the config its engine was launched with
          \*   games: Supervisor.games, GameId -> [config, players, thread_config]
          \*          of the Game task
          \*   id_counter: Supervisor.id_counter

cfgVars == <<cf>>

\* The remote control endpoint (src/src/remote_control/mod.rs)
VARIABLES
    remote    \* Remote and its server thread, a record of
              \*   pc: the thread, "accept", "read" (read_line), "wait"
              \*       (rx_send.recv()), "done" (process_line returned Ok) or "panicked"
              \*   answers: the Response lines written for the line read last
              \*   errors: whether a line of this connection was answered
              \*           Error("Invalid request: ...")
              \*   recv: the channel of Requests to the Supervisor (tx_recv, Remote.recv)
              \*   send: the channel of Responses from the Supervisor (Remote.send, rx_send)

rcVars == <<remote>>

\* run_server_config and the remote control server (src/src/lib.rs,
\* src/src/remote_control/mod.rs)
VARIABLES
    server    \* the process as far as connections and shutdown go, a record of
              \*   main: run_server_config, "loop", "join" (r.handle.join()),
              \*         "returned" or "panicked"
              \*   proxy: the proxy listener thread, "up" or "failed"
              \*   enabled: config.remote_controller.enabled
              \*   pc: the remote control thread, "off", "accept", "read", "wait"
              \*       (rx_send.recv()) or "done"
              \*   conn: the connection process_line serves, 0 for none
              \*   waiting: the connections made and not accepted yet, oldest first
              \*   served: history, the connections accepted, in order
              \*   io_ended: the connections process_line has left with an Err
              \*   recv: the channel of Requests, each with the connection it was read from
              \*   send: the channel of Responses
              \*   written: history, the Responses written, each with the
              \*            connection it was written to
              \*   lost: history, the Responses taken from the channel whose write
              \*         failed, each with the connection that failed
              \*   lines: the lines read so far

srvVars == <<server>>

\* The Players of one match at the end of the game (src/src/game/player.rs)
VARIABLES
    observers    \* per Player: obs, the player_result list of the observation its
                 \* engine sends, and sent, the ToGameContent it has sent for it

obsVars == <<observers>>

\* One pass of Supervisor::update_playlist (src/src/supervisor.rs)
VARIABLES
    pass    \* a record of
            \*   playlist: Supervisor.playlist, a sequence of [client, req]
            \*   start: history, the playlist when the pass began
            \*   i: the index the loop polls next (the code's i + 1), 0 after the last
            \*   polled: history, the clients polled in this pass, in order
            \*   pc: "loop", "done", or "panicked" after an index out of bounds

passVars == <<pass>>

vars == <<svVars, gameVars, playerVars, lobbyVars, cfgVars, rcVars, srvVars, obsVars, passVars>>

\* ------------------------------------------------------------------------
\* The Supervisor (src/src/supervisor.rs)
\* ------------------------------------------------------------------------

Clients == 1..NumClients

\* MatchmakingMode
MatchmakingMode == {"AgainstBuiltinAI", "Pairs", "Singleplayer", "RemoteController"}

\* The part of Config the Supervisor reads: the matchmaking mode, and whether
\* match_defaults.game.map_name is set and resolves (what Config::check tests).
Configs ==
    [mode : MatchmakingMode, map_ok : {TRUE}] \cup [mode : {"Pairs"}, map_ok : {FALSE}]

\* Config::check
MutCheckAlwaysOk(cfg) == TRUE

check(cfg) == cfg.map_ok

\* GameId::next
MutNextSameId(id) == id

next(id) == id + 1

\* sc2_status values a Player caches from the engine's responses
Status == {"launched", "in_game"}

\* An empty map
EmptyMap == [x \in {} |-> x]

\* The entry is looked up and left in the map
MutGetKeepsEntry(f, k) == f

\* HashMap::remove: the map without one key
Without(f, k) == [x \in DOMAIN f \ {k} |-> f[x]]

\* Vec::remove(index)
RemoveAt(s, i) == SubSeq(s, 1, i - 1) \o SubSeq(s, i + 1, Len(s))

\* The elements of a sequence.
Range(s) == {s[i] : i \in DOMAIN s}

\* ---- GameLobby, as far as the Supervisor drives it (src/src/game/lobby.rs) ----

\* GameLobby::new. The config snapshot the lobby clones is never read by the
\* Supervisor and is left out here. The field id is not in the code: it records
\* the GameId the Supervisor created the lobby under, so that the id can be
\* followed into the game.
GameLobby_new(cfg, id) ==
    [players |-> <<>>, computer_players |-> 0, id |-> id]

\* GameLobby::join: Player::new spawns the engine and takes the connection
MutJoinForgetsClient(lobby, client) == lobby

join(lobby, client) == [lobby EXCEPT !.players = Append(@, client)]

\* GameLobby::add_computer
add_computer(lobby) == [lobby EXCEPT !.computer_players = @ + 1]

\* GameLobby::is_valid: at least one participant
is_valid(lobby) == Len(lobby.players) > 0

\* GameLobby::start, when the handshake succeeds: the Game owns the players
start(lobby) ==
    [players |-> lobby.players, computer_players |-> lobby.computer_players,
     id |-> lobby.id]

\* game::spawn: the Game task runs, the Handle holds the channel ends.
\* phase is the task ("running", "done", "panicked"), result_rx the results
\* sent and not yet received, returned the Players the task returned
\* (each with its cached sc2_status), quit whether FromSupervisor::Quit is
\* in msg_tx.
spawn_game(game) ==
    [players |-> game.players, computer_players |-> game.computer_players,
     id |-> game.id,
     phase |-> "running", result_rx |-> <<>>, returned |-> <<>>, quit |-> FALSE]

\* ---- Supervisor ----

\* A panic of the control loop: the values it held in local variables are dropped.
Panic(lost) ==
    /\ sv_pc' = "panicked"
    /\ dropped' = dropped \cup lost

MutSetNonblockingIgnored(modes, client, on) == modes

\* client.set_nonblocking(on): the modes of the client sockets afterwards
set_nonblocking(modes, client, on) == [modes EXCEPT ![client] = on]

\* Supervisor::add_client
add_client(pl, client) == Append(pl, [client |-> client, req |-> FALSE])

\* run_server_config hands the next accepted connection to add_client; the
\* clients are numbered in the order the listener accepts them
AddClient(client) ==
    /\ sv_pc = "loop" /\ up_i = 0
    /\ client \in incoming
    /\ \A c \in incoming : client <= c
    /\ incoming' = incoming \ {client}
    /\ nonblocking' = set_nonblocking(nonblocking, client, TRUE)
    /\ playlist' = add_client(playlist, client)
    /\ UNCHANGED <<config, games, lobbies, id_counter, sv_pc, up_i,
                   dropped, detached, created>>
    /\ UNCHANGED <<gameVars, playerVars, lobbyVars, cfgVars, rcVars, srvVars, obsVars, passVars>>

\* Supervisor::client_index_by_id: the first index of the client, 0 for None
MutIndexOfFirstEntry(client_id) == IF playlist = <<>> THEN 0 ELSE 1

client_index_by_id(client_id) ==
    LET hits == {i \in DOMAIN playlist : playlist[i].client = client_id}
    IN IF hits = {} THEN 0 ELSE CHOOSE i \in hits : \A j \in hits : i <= j

\* The Pairs branch takes self.lobbies.keys().nth(0): any key of the HashMap.
FirstLobbyKeys == DOMAIN lobbies

\* The id under which playlist_join_game and StartGame register the started game.
MutGameKeyFresh(lobby_key) == id_counter

GameKey(lobby_key) == lobby_key

\* self.playlist.remove(index): what is left of the playlist
MutTakeKeepsEntry(index) == playlist

TakeFromPlaylist(index) == RemoveAt(playlist, index)

\* (client, Some(req)): the playlist entry of a client whose join request waits
\* for the remote controller
MutPushWithoutRequest(client) == [client |-> client, req |-> FALSE]

pending_join(client) == [client |-> client, req |-> TRUE]

\* The outcomes of lobby.start(): the Game ("game"); the failure the callers
\* handle with `?` and `if let Some(game)` ("none"); the unimplemented!() that
\* create_game and join_all_game run into on an error response ("panic").
StartOutcomes == {"game", "none", "panic"}

\* lobby.start() as the Supervisor calls it, and what the caller does with
\* the outcome; the lobby has been taken out of self.lobbies and is consumed.
lobby_start(lobby, id, outcome) ==
    CASE outcome = "game" ->
           /\ games' = (GameKey(id) :> spawn_game(start(lobby))) @@ games
           /\ UNCHANGED <<dropped, sv_pc>>
      [] outcome = "none" ->
           /\ dropped' = dropped \cup Range(lobby.players)
           /\ UNCHANGED <<games, sv_pc>>
      [] OTHER ->
           /\ Panic(Range(lobby.players))
           /\ UNCHANGED games

\* Supervisor::playlist_join_game(index, req); outcome is the outcome of
\* lobby.start(), key the lobby the Pairs branch picks.
playlist_join_game(index, outcome, key) ==
    LET client == playlist[index].client
        old_req == playlist[index].req
        rest == TakeFromPlaylist(index)
    IN
    IF old_req
    THEN \* joined twice: return None, the connection is dropped
         /\ playlist' = rest
         /\ dropped' = dropped \cup {client}
         /\ UNCHANGED <<lobbies, games, id_counter, created, nonblocking, sv_pc>>
    ELSE
    CASE config.mode = "AgainstBuiltinAI" ->
           IF ~check(config)
           THEN /\ Panic({client})
                /\ playlist' = rest
                /\ nonblocking' = set_nonblocking(nonblocking, client, FALSE)
                /\ UNCHANGED <<lobbies, games, id_counter, created>>
           ELSE LET id == id_counter
                    lobby == add_computer(join(GameLobby_new(config, id), client))
                IN  /\ id_counter' = next(id)
                    /\ created' = Append(created, id)
                    /\ playlist' = rest
                    /\ nonblocking' = set_nonblocking(nonblocking, client, FALSE)
                    /\ UNCHANGED lobbies
                    /\ lobby_start(lobby, id, outcome)
      [] config.mode = "Pairs" ->
           IF DOMAIN lobbies # {}
           THEN LET id == key
                    lobby == join(lobbies[id], client)
                IN  /\ id \in FirstLobbyKeys
                    /\ playlist' = rest
                    /\ nonblocking' = set_nonblocking(nonblocking, client, FALSE)
                    /\ lobbies' = Without(lobbies, id)
                    /\ UNCHANGED <<id_counter, created>>
                    /\ lobby_start(lobby, id, outcome)
           ELSE IF ~check(config)
                THEN /\ Panic({client})
                     /\ playlist' = rest
                     /\ nonblocking' = set_nonblocking(nonblocking, client, FALSE)
                     /\ UNCHANGED <<lobbies, games, id_counter, created>>
                ELSE LET id == id_counter
                     IN  /\ id_counter' = next(id)
                         /\ created' = Append(created, id)
                         /\ playlist' = rest
                         /\ nonblocking' = set_nonblocking(nonblocking, client, FALSE)
                         /\ lobbies' = (id :> join(GameLobby_new(config, id), client)) @@ lobbies
                         /\ UNCHANGED <<games, dropped, sv_pc>>
      [] config.mode = "RemoteController" ->
           \* back to the playlist, ready: the remote places the client
           /\ playlist' = Append(rest, pending_join(client))
           /\ UNCHANGED <<lobbies, games, id_counter, created, nonblocking,
                          dropped, sv_pc>>
      [] OTHER ->
           \* panic!("Unimplemented matchmaking mode")
           /\ Panic({client})
           /\ playlist' = rest
           /\ nonblocking' = set_nonblocking(nonblocking, client, FALSE)
           /\ UNCHANGED <<lobbies, games, id_counter, created>>

\* Whether playlist_join_game would call create_lobby
JoinCreatesLobby(index) ==
    /\ ~playlist[index].req
    /\ \/ config.mode = "AgainstBuiltinAI"
       \/ config.mode = "Pairs" /\ DOMAIN lobbies = {}
    /\ check(config)

MutDropClearsPlaylist(index) ==
    /\ playlist' = <<>>
    /\ dropped' = dropped \cup {playlist[index].client}

\* Supervisor::drop_client
drop_client(index) ==
    /\ playlist' = RemoveAt(playlist, index)
    /\ dropped' = dropped \cup {playlist[index].client}

\* What recv_message and process_playlist_message make of a playlist client:
\* WouldBlock, a Quit, Ping or JoinGame request, anything else (Kick), a socket error
PlaylistEvents == {"WouldBlock", "Quit", "Ping", "JoinGame", "Kick", "Error"}

\* Supervisor::update_playlist, entering the loop: i runs from len-1 down to 0
\* (here from Len down to 1)
UpdatePlaylistBegin ==
    /\ sv_pc = "loop" /\ up_i = 0
    /\ playlist # <<>>
    /\ up_i' = Len(playlist)
    /\ UNCHANGED <<config, games, lobbies, playlist, id_counter, sv_pc, incoming,
                   dropped, detached, nonblocking, created>>
    /\ UNCHANGED <<gameVars, playerVars, lobbyVars, cfgVars, rcVars, srvVars, obsVars, passVars>>

\* Supervisor::update_playlist, one iteration of the loop
UpdatePlaylistStep(ev, outcome, key) ==
    /\ sv_pc = "loop" /\ up_i > 0
    /\ CASE ev \in {"WouldBlock", "Ping"} ->
              /\ up_i' = up_i - 1
              /\ UNCHANGED <<playlist, dropped, lobbies, games, id_counter, created, nonblocking, sv_pc>>
         [] ev \in {"Quit", "Kick", "Error"} ->
              /\ drop_client(up_i)
              /\ up_i' = up_i - 1
              /\ UNCHANGED <<lobbies, games, id_counter, created, nonblocking,
                             sv_pc>>
         [] ev = "JoinGame" ->
              /\ JoinCreatesLobby(up_i) => id_counter < MaxGameId
              /\ playlist_join_game(up_i, outcome, key)
              /\ up_i' = IF sv_pc' = "panicked" THEN 0 ELSE up_i - 1
    /\ UNCHANGED <<config, incoming, detached>>
    /\ UNCHANGED <<gameVars, playerVars, lobbyVars, cfgVars, rcVars, srvVars, obsVars, passVars>>

\* ---- Supervisor::update_games ----

\* Handle::check: a result was sent, or the result channel is disconnected
Handle_check(h) == h.result_rx # <<>> \/ h.phase # "running"

\* handle.join(): the Players the finished Game task returned
result_players(h) == h.returned

\* All orders in which a HashMap may yield the keys of S
Orders(S) == {f \in [1..Cardinality(S) -> S] : \A i, j \in DOMAIN f : f[i] = f[j] => i = j}

\* for p in players { self.add_client(p.extract_client()) }: extract_client
\* asserts that the cached status is launched; acc is the Supervisor so far
RECURSIVE ReturnPlayers(_, _)
ReturnPlayers(acc, players) ==
    IF players = <<>> THEN acc
    ELSE LET p == Head(players)
         IN IF acc.panicked \/ p.status # "launched"
            THEN ReturnPlayers([acc EXCEPT !.panicked = TRUE,
                                           !.dropped = @ \cup {p.client}], Tail(players))
            ELSE ReturnPlayers([acc EXCEPT !.playlist = add_client(@, p.client),
                                           !.nonblocking = set_nonblocking(@, p.client, TRUE)], Tail(players))

\* Handle::collect_result of one game, and the Ok/Err arms of update_games
collect_result(acc, id) ==
    LET h == acc.games[id]
        removed == [acc EXCEPT !.games = Without(@, id)]
    IN IF h.result_rx # <<>>
       THEN IF h.phase = "panicked"
            THEN \* expect("Game crashed after sending a result")
                 [removed EXCEPT !.panicked = TRUE]
            ELSE ReturnPlayers(removed, result_players(h))
       ELSE \* Err(()): the task panicked; logged
            removed

RECURSIVE CollectAll(_, _)
CollectAll(acc, order) ==
    IF order = <<>> \/ acc.panicked THEN acc
    ELSE CollectAll(collect_result(acc, Head(order)), Tail(order))

UpdateGames(order) ==
    /\ sv_pc = "loop" /\ up_i = 0
    /\ order \in Orders({id \in DOMAIN games : Handle_check(games[id])})
    /\ order # <<>>
    /\ LET acc == CollectAll([games |-> games, playlist |-> playlist, dropped |-> dropped,
                              nonblocking |-> nonblocking, panicked |-> FALSE], order)
       IN /\ games' = acc.games
          /\ playlist' = acc.playlist
          /\ dropped' = acc.dropped
          /\ nonblocking' = acc.nonblocking
          /\ sv_pc' = IF acc.panicked THEN "panicked" ELSE "loop"
    /\ UNCHANGED <<config, lobbies, id_counter, up_i, incoming,
                   detached, created>>
    /\ UNCHANGED <<gameVars, playerVars, lobbyVars, cfgVars, rcVars, srvVars, obsVars, passVars>>

\* ---- Supervisor::update_remote ----

\* Values a remote Ping carries
PingValues == {7}

\* remote_control::message::Request
Request ==
    {<<"Quit">>, <<"GetConfig">>, <<"GetPlaylist">>, <<"ClearPlaylist">>, <<"CreateLobby">>}
    \cup {<<"Ping", v>> : v \in PingValues}
    \cup {<<"SetConfig", c>> : c \in Configs}
    \cup {<<"DropPlaylistItem", c>> : c \in Clients}
    \cup {<<"AddToLobby", g, c>> : g \in 0..MaxGameId - 1, c \in Clients}
    \cup {<<"StartGame", g>> : g \in 0..MaxGameId - 1}

\* Supervisor::update_remote: the requests at which the control loop panics
\* before remote.send is reached: create_lobby with an invalid config, and
\* lobby.start() running into unimplemented!()
update_remote_panics(req, outcome) ==
    \/ req[1] = "CreateLobby" /\ ~check(config)
    \/ /\ req[1] = "StartGame"
       /\ req[2] \in DOMAIN lobbies
       /\ is_valid(lobbies[req[2]])
       /\ outcome = "panic"

\* Supervisor::update_remote: the Response sent for a received request, from
\* the state the request finds, when one is sent; outcome is the outcome of
\* lobby.start()
remote_response(req, outcome) ==
    CASE req[1] = "Quit" -> <<"Quit">>
      [] req[1] = "Ping" -> <<"Ping", req[2]>>
      [] req[1] = "GetConfig" -> <<"GetConfig", config>>
      [] req[1] = "SetConfig" -> <<"SetConfig", req[2]>>
      [] req[1] = "GetPlaylist" ->
           <<"GetPlaylist", [i \in DOMAIN playlist |-> <<playlist[i].client, playlist[i].req>>]>>
      [] req[1] = "CreateLobby" -> <<"CreateLobby", id_counter>>
      [] req[1] = "AddToLobby" ->
           LET index == client_index_by_id(req[3])
           IN IF index = 0 THEN <<"Error", "No such client">>
              ELSE IF ~playlist[index].req THEN <<"Error", "Client not ready">>
              ELSE IF req[2] \notin DOMAIN lobbies THEN <<"Error", "No such game">>
              ELSE <<"AddToLobby">>
      [] req[1] = "StartGame" ->
           IF req[2] \notin DOMAIN lobbies THEN <<"Error", "No such game">>
           ELSE IF ~is_valid(lobbies[req[2]]) THEN <<"Error", "The lobby is empty">>
           ELSE IF outcome = "game" THEN <<"StartGame">>
           ELSE <<"Error", "Game start failed">>
      [] OTHER -> <<"Error", "Unsupported">>

\* Supervisor::update_remote: what a received request does to the Supervisor
update_remote(req, outcome) ==
    CASE req[1] = "SetConfig" ->
           /\ config' = req[2]
           /\ UNCHANGED <<playlist, lobbies, games, id_counter, created,
                          dropped, nonblocking, sv_pc>>
      [] req[1] = "CreateLobby" ->
           IF ~check(config)
           THEN /\ Panic({})
                /\ UNCHANGED <<config, playlist, lobbies, games, id_counter, created, nonblocking>>
           ELSE /\ id_counter < MaxGameId
                /\ id_counter' = next(id_counter)
                /\ created' = Append(created, id_counter)
                /\ lobbies' = (id_counter :> GameLobby_new(config, id_counter)) @@ lobbies
                /\ UNCHANGED <<config, playlist, games, dropped, nonblocking, sv_pc>>
      [] req[1] = "AddToLobby" ->
           LET game_id == req[2]
               index == client_index_by_id(req[3])
           IN IF index # 0
              THEN LET client == playlist[index].client
                   IN /\ playlist' = TakeFromPlaylist(index)
                      /\ IF playlist[index].req /\ game_id \in DOMAIN lobbies
                         THEN /\ nonblocking' = set_nonblocking(nonblocking, client, FALSE)
                              /\ lobbies' = [lobbies EXCEPT ![game_id] = join(@, client)]
                              /\ UNCHANGED dropped
                         ELSE \* not ready, or no such game: the connection is dropped
                              /\ dropped' = dropped \cup {client}
                              /\ UNCHANGED <<lobbies, nonblocking>>
                      /\ UNCHANGED <<config, games, id_counter, created, sv_pc>>
              ELSE UNCHANGED <<config, playlist, lobbies, games, id_counter, created, dropped, nonblocking, sv_pc>>
      [] req[1] = "StartGame" ->
           LET game_id == req[2]
           IN IF game_id \in DOMAIN lobbies
              THEN LET lobby == lobbies[game_id]
                   IN /\ lobbies' = Without(lobbies, game_id)
                      /\ IF ~is_valid(lobby)
                         THEN UNCHANGED <<games, dropped, sv_pc>>
                         ELSE lobby_start(lobby, game_id, outcome)
                      /\ UNCHANGED <<config, playlist, id_counter, created, nonblocking>>
              ELSE UNCHANGED <<config, playlist, lobbies, games, id_counter, created, dropped, nonblocking, sv_pc>>
      [] OTHER ->
           \* Ping, GetConfig, GetPlaylist; DropPlaylistItem and ClearPlaylist are
           \* answered Error("Unsupported")
           UNCHANGED <<config, playlist, lobbies, games, id_counter, created,
                       dropped, nonblocking, sv_pc>>

\* The requests that can change the Supervisor in the state they find: a
\* SetConfig with another config, CreateLobby, AddToLobby naming a playlist
\* client and StartGame naming a lobby
ChangesSupervisor(req) ==
    CASE req[1] = "SetConfig" -> req[2] # config
      [] req[1] = "CreateLobby" -> TRUE
      [] req[1] = "AddToLobby" -> client_index_by_id(req[3]) # 0
      [] req[1] = "StartGame" -> req[2] \in DOMAIN lobbies
      [] OTHER -> FALSE

\* The tick of run_server_config in which update_remote receives a request
\* other than Quit. A request that leaves the Supervisor as it finds it (Ping,
\* GetConfig, an unknown client or lobby, ...) only sends its Response: a
\* stuttering step, which the specification allows without this action.
UpdateRemote(req, outcome) ==
    /\ sv_pc = "loop" /\ up_i = 0
    /\ req[1] # "Quit"
    /\ ChangesSupervisor(req)
    /\ update_remote(req, outcome)
    /\ UNCHANGED <<up_i, incoming, detached>>
    /\ UNCHANGED <<gameVars, playerVars, lobbyVars, cfgVars, rcVars, srvVars, obsVars, passVars>>
    /\ svVars' # svVars

\* ---- Supervisor::close ----

\* Supervisor::close, which run_server_config calls when update_remote has
\* returned Quit. game.send(FromSupervisor::Quit) for every game: the send
\* fails, and the Supervisor panics, when the task of a game has ended; sent
\* are then the running games the HashMap yielded before.
close(sent) ==
    LET running == {id \in DOMAIN games : games[id].phase = "running"}
    IN  /\ IF running = DOMAIN games
           THEN /\ sent = running
                /\ sv_pc' = "closed"
                /\ dropped' = dropped \cup {playlist[i].client : i \in DOMAIN playlist}
                                      \cup UNION {Range(lobbies[id].players) : id \in DOMAIN lobbies}
                /\ playlist' = <<>>
                /\ lobbies' = EmptyMap
           ELSE /\ sent \subseteq running
                /\ sv_pc' = "panicked"
                /\ UNCHANGED <<dropped, playlist, lobbies>>
        /\ games' = [id \in DOMAIN games |->
                        IF id \in sent THEN [games[id] EXCEPT !.quit = TRUE] ELSE games[id]]

\* The tick of run_server_config in which update_remote receives Quit:
\* Response::Quit is sent, update_remote returns Quit and close() runs.
UpdateRemoteQuit(sent) ==
    /\ sv_pc = "loop" /\ up_i = 0
    /\ close(sent)
    /\ UNCHANGED <<config, id_counter, up_i, incoming, detached, nonblocking, created>>
    /\ UNCHANGED <<gameVars, playerVars, lobbyVars, cfgVars, rcVars, srvVars, obsVars, passVars>>

\* ---- The task of a game, as the Supervisor sees it ----
\* (the tasks end with the process when the control loop has ended)

\* The ways the Player tasks of a game can end: fate[i] is "left" (run
\* returned Some(self) after a leave_game response), "gone" (run returned
\* None, the engine killed or waited for) or "panicked" (the task panicked).
Fates(h) == [DOMAIN h.players -> {"left", "gone", "panicked"}]

\* The statuses the engine may have reported last to each Player
Statuses(h) == [DOMAIN h.players -> Status]

\* Vec<Player> collected from the join handles, in player order
RECURSIVE Survivors(_, _, _, _)
Survivors(h, fate, status, i) ==
    IF i > Len(h.players) THEN <<>>
    ELSE (IF fate[i] = "left"
          THEN <<[client |-> h.players[i], status |-> status[i]]>>
          ELSE <<>>) \o Survivors(h, fate, status, i + 1)

\* Game::run ends normally: every Player task has returned, the Normal
\* result is sent and the task returns the Players that left the game.
GameEnds(id, fate, status) ==
    /\ sv_pc = "loop"
    /\ id \in DOMAIN games
    /\ games[id].phase = "running"
    /\ fate \in Fates(games[id]) /\ status \in Statuses(games[id])
    /\ \A i \in DOMAIN fate : fate[i] # "panicked"
    /\ games' = [games EXCEPT ![id].phase = "done",
                              ![id].result_rx = Append(@, "Normal"),
                              ![id].returned = Survivors(games[id], fate, status, 1),
                              ![id].players = <<>>]
    /\ dropped' = dropped \cup {games[id].players[i] : i \in {j \in DOMAIN fate : fate[j] = "gone"}}
    /\ UNCHANGED <<config, lobbies, playlist, id_counter, sv_pc, up_i, incoming, detached,
                   nonblocking, created>>
    /\ UNCHANGED <<gameVars, playerVars, lobbyVars, cfgVars, rcVars, srvVars, obsVars, passVars>>

\* The Game task panics. Joining the Player tasks in order it meets one that
\* panicked: the Players before it have returned and are dropped with
\* the task, the Player tasks after it are detached with their join handles
\* (running tells which of them still run).
GamePanics(id, first, running) ==
    /\ sv_pc = "loop"
    /\ id \in DOMAIN games
    /\ games[id].phase = "running"
    /\ first \in DOMAIN games[id].players
    /\ running \subseteq {i \in DOMAIN games[id].players : i > first}
    /\ games' = [games EXCEPT ![id].phase = "panicked", ![id].players = <<>>]
    /\ detached' = detached \cup {games[id].players[i] : i \in running}
    /\ dropped' = dropped \cup {games[id].players[i] : i \in DOMAIN games[id].players \ running}
    /\ UNCHANGED <<config, lobbies, playlist, id_counter, sv_pc, up_i, incoming,
                   nonblocking, created>>
    /\ UNCHANGED <<gameVars, playerVars, lobbyVars, cfgVars, rcVars, srvVars, obsVars, passVars>>

\* A detached Player task ends: its connection is dropped
DetachedEnds(client) ==
    /\ sv_pc = "loop"
    /\ client \in detached
    /\ detached' = detached \ {client}
    /\ dropped' = dropped \cup {client}
    /\ UNCHANGED <<config, games, lobbies, playlist, id_counter, sv_pc, up_i,
                   incoming, nonblocking, created>>
    /\ UNCHANGED <<gameVars, playerVars, lobbyVars, cfgVars, rcVars, srvVars, obsVars, passVars>>

\* ---- The Supervisor specification ----

\* Supervisor::new, with the config run_server_config loaded
SvInit ==
    /\ config \in Configs
    /\ games = EmptyMap
    /\ lobbies = EmptyMap
    /\ playlist = <<>>
    /\ id_counter = 0
    /\ sv_pc = "loop"
    /\ up_i = 0
    /\ incoming = Clients
    /\ dropped = {}
    /\ detached = {}
    /\ nonblocking = [c \in Clients |-> FALSE]
    /\ created = <<>>

SvNext ==
    \/ \E client \in Clients : AddClient(client)
    \/ UpdatePlaylistBegin
    \/ \E ev \in PlaylistEvents :
         \E outcome \in (IF ev = "JoinGame" THEN StartOutcomes ELSE {"game"}),
            key \in (IF ev = "JoinGame" /\ DOMAIN lobbies # {} THEN FirstLobbyKeys ELSE {0}) :
            UpdatePlaylistStep(ev, outcome, key)
    \/ \E order \in Orders({id \in DOMAIN games : Handle_check(games[id])}) : UpdateGames(order)
    \/ \E req \in Request :
         \E outcome \in (IF req[1] = "StartGame" THEN StartOutcomes ELSE {"game"}) :
            UpdateRemote(req, outcome)
    \/ \E sent \in SUBSET DOMAIN games : UpdateRemoteQuit(sent)
    \/ \E id \in DOMAIN games :
         \E fate \in Fates(games[id]), status \in Statuses(games[id]) : GameEnds(id, fate, status)
    \/ \E id \in DOMAIN games :
         \E first \in DOMAIN games[id].players, running \in SUBSET DOMAIN games[id].players :
            GamePanics(id, first, running)
    \/ \E client \in Clients : DetachedEnds(client)

\* ------------------------------------------------------------------------
\* One Game task (src/src/game/game.rs, src/src/game/messaging.rs), with its
\* Player tasks as far as they talk to it and the Handle the Supervisor holds
\* ------------------------------------------------------------------------

\* sc2::PlayerResult as the engine reports it for a finished game
PlayerResult == {"Victory", "Defeat", "Tie"}

\* ToGameContent, other than GameOver
Terminal == {"LeftGame", "QuitBeforeLeave", "SC2UnexpectedConnectionClose",
             "UnexpectedConnectionClose"}

\* The matches the Supervisor starts: participants only (Pairs, a remote
\* StartGame), or one participant against one computer (AgainstBuiltinAI)
Matches == {<<n, 0>> : n \in 1..MaxPlayers} \cup {<<1, 1>>}

\* The outcomes of a match with k players: one winner, or a tie
MatchOutcomes(k) ==
    {[i \in 1..k |-> IF i = w THEN "Victory" ELSE "Defeat"] : w \in 1..k}
        \cup {[i \in 1..k |-> "Tie"]}

MutQuitKeepsCollecting == "loop"

\* Game::run after it has sent the QuitRequest result: unimplemented!()
AfterQuitRequest == "panicked"

\* Game::process_msg indexes player_results[player_index] for every message
\* but GameOver, and panics when the index is out of bounds (player_index
\* counts from 1 here)
process_msg_panics(msg, results) ==
    msg.content # "GameOver" /\ msg.player_index \notin DOMAIN results

MutTerminalDefeatsAll(msg, results) ==
    IF msg.content = "GameOver" THEN msg.results ELSE [j \in DOMAIN results |-> "Defeat"]

\* Game::process_msg, when it does not panic
process_msg(msg, results) ==
    IF msg.content = "GameOver"
    THEN \* player_results.splice(.., results): the whole vector is replaced
         msg.results
    ELSE [results EXCEPT ![msg.player_index] = "Defeat"]

MutLoopNeverFull(results) == TRUE

\* while player_results.contains(&None)
contains_None(results) == \E i \in DOMAIN results : results[i] = "None"

\* ChannelToGame::send: the message as the game receives it. The engines of
\* one match report the same player results.
ToGame(i, content) ==
    [player_index |-> i, content |-> content,
     results |-> IF content = "GameOver" THEN engine_results ELSE <<>>]

\* Game::run holds rx and the ChannelToPlayer senders until it ends
rx_open == g_pc \in {"loop", "join"}

MutSendLost(msg) == rx

\* rx after a successful send. Game::run reads rx in its collection loop
\* only: a message sent after the loop is never received and is not kept.
rx_send(msg) == IF g_pc = "loop" THEN Append(rx, msg) ELSE rx

\* rx after a receive in the collection loop: what is left when the loop
\* ends with this message is never received and is not kept.
rx_recv(pc) == IF pc = "loop" THEN Tail(rx) ELSE <<>>

\* The Handle holds result_rx until it is dropped
result_rx_open == handle \in {"held", "quit_sent"}

GameResult(end_reason, results) == [end_reason |-> end_reason, player_results |-> results]

\* One iteration of Player::run that does not return: the engine's response
\* is forwarded; with over it was an observation carrying the player
\* results and GameOver is sent. Then gamec.recv() is polled: on ToPlayer::Quit
\* the engine is killed and run returns None.
PlayerIterates(i, over) ==
    /\ i \in 1..g_players /\ p_st[i] = "running"
    /\ over => Len(rx) < MaxQueue
    /\ the_game' =
         IF over /\ ~rx_open
         THEN \* expect("Unable to send to the game")
              [the_game EXCEPT !.p_st[i] = "panicked"]
         ELSE LET sent == [the_game EXCEPT
                              !.rx = IF over THEN rx_send(ToGame(i, "GameOver")) ELSE @]
              IN  IF to_player[i] # <<>>
                  THEN [sent EXCEPT !.to_player[i] = Tail(@),
                                    !.process[i] = "killed",
                                    !.p_st[i] = "none"]
                  ELSE IF ~rx_open
                  THEN \* the ChannelToPlayer is dropped: panic!("Disconnected")
                       [sent EXCEPT !.p_st[i] = "panicked"]
                  ELSE sent
    /\ UNCHANGED <<svVars, playerVars, lobbyVars, cfgVars, rcVars, srvVars, obsVars, passVars>>

\* Player::run returns after sending a terminal message: Some(self) after
\* LeftGame, None otherwise, with the engine awaited after QuitBeforeLeave and
\* killed on the two connection failures
PlayerReturns(i, content) ==
    /\ i \in 1..g_players /\ p_st[i] = "running"
    /\ content \in Terminal
    /\ Len(rx) < MaxQueue
    /\ the_game' =
         IF rx_open
         THEN [the_game EXCEPT
                  !.rx = rx_send(ToGame(i, content)),
                  !.p_st[i] = IF content = "LeftGame" THEN "some" ELSE "none",
                  !.process[i] = CASE content = "LeftGame" -> @
                                   [] content = "QuitBeforeLeave" -> "exited"
                                   [] OTHER -> "killed"]
         ELSE [the_game EXCEPT !.p_st[i] = "panicked"]
    /\ UNCHANGED <<svVars, playerVars, lobbyVars, cfgVars, rcVars, srvVars, obsVars, passVars>>

\* A Player task panics: a frame that is not binary, a failed send to the
\* client, a socket error other than a closed connection
PlayerPanics(i) ==
    /\ i \in 1..g_players /\ p_st[i] = "running"
    /\ the_game' = [the_game EXCEPT !.p_st[i] = "panicked"]
    /\ UNCHANGED <<svVars, playerVars, lobbyVars, cfgVars, rcVars, srvVars, obsVars, passVars>>

\* Game::run, collection loop, recv(rx) -> Ok(msg)
GameReceives ==
    /\ g_pc = "loop" /\ rx # <<>>
    /\ the_game' =
         IF process_msg_panics(Head(rx), player_results)
         THEN [the_game EXCEPT !.g_pc = "panicked", !.rx = rx_recv("panicked")]
         ELSE LET results == process_msg(Head(rx), player_results)
                  pc == IF contains_None(results) THEN "loop" ELSE "join"
              IN  [the_game EXCEPT !.player_results = results,
                                   !.g_pc = pc,
                                   !.rx = rx_recv(pc)]
    /\ UNCHANGED <<svVars, playerVars, lobbyVars, cfgVars, rcVars, srvVars, obsVars, passVars>>

\* Game::run, collection loop, recv(rx) -> Err: every Player task has ended
\* and dropped its sender
GameRxClosed ==
    /\ g_pc = "loop" /\ rx = <<>>
    /\ \A i \in 1..g_players : p_st[i] # "running"
    /\ the_game' = [the_game EXCEPT !.g_pc = "panicked"]
    /\ UNCHANGED <<svVars, playerVars, lobbyVars, cfgVars, rcVars, srvVars, obsVars, passVars>>

\* Game::run, collection loop, recv(from_sv) -> Ok(FromSupervisor::Quit): the
\* QuitRequest result is sent (the send fails, and expect panics, when the
\* Handle is dropped already), then unimplemented!(). Nothing is sent on the
\* ToPlayer channels. (recv(from_sv) -> Err needs the Handle dropped with no
\* Quit left in the channel, and by then this task has ended.)
GameQuitRequested ==
    /\ g_pc = "loop" /\ from_sv # <<>>
    /\ the_game' =
         LET pc == IF result_rx_open THEN AfterQuitRequest ELSE "panicked"
             taken == [the_game EXCEPT !.from_sv = Tail(@),
                                       !.g_pc = pc,
                                       !.rx = IF pc = "loop" THEN @ ELSE <<>>]
         IN  IF result_rx_open
             THEN [taken EXCEPT
                      !.result_rx = Append(@, GameResult("QuitRequest", <<>>)),
                      !.result_log = Append(@, GameResult("QuitRequest", <<>>))]
             ELSE taken
    /\ UNCHANGED <<svVars, playerVars, lobbyVars, cfgVars, rcVars, srvVars, obsVars, passVars>>

\* Game::run, for handle in handles { handle.join() }, one handle
GameJoins ==
    /\ g_pc = "join" /\ joined < g_players
    /\ p_st[joined + 1] # "running"
    /\ the_game' =
         CASE p_st[joined + 1] = "some" ->
                [the_game EXCEPT !.g_result_players = Append(@, joined + 1),
                                 !.joined = joined + 1]
           [] p_st[joined + 1] = "none" ->
                [the_game EXCEPT !.joined = joined + 1]
           [] OTHER ->
                \* panic!("Could not join game-client thread")
                [the_game EXCEPT !.g_pc = "panicked"]
    /\ UNCHANGED <<svVars, playerVars, lobbyVars, cfgVars, rcVars, srvVars, obsVars, passVars>>

\* Game::run sends the Normal result and returns result_players (the send
\* fails, and expect panics, when the Handle is dropped already)
GameSendsResult ==
    /\ g_pc = "join" /\ joined = g_players
    /\ the_game' =
         IF result_rx_open
         THEN [the_game EXCEPT
                  !.result_rx = Append(@, GameResult("Normal", player_results)),
                  !.result_log = Append(@, GameResult("Normal", player_results)),
                  !.g_pc = "done"]
         ELSE [the_game EXCEPT !.g_pc = "panicked"]
    /\ UNCHANGED <<svVars, playerVars, lobbyVars, cfgVars, rcVars, srvVars, obsVars, passVars>>

\* Supervisor::close, game.send(FromSupervisor::Quit) to a game whose task runs
SupervisorSendsQuit ==
    /\ handle = "held" /\ rx_open
    /\ the_game' = [the_game EXCEPT !.from_sv = Append(@, "Quit"),
                                    !.handle = "quit_sent"]
    /\ UNCHANGED <<svVars, playerVars, lobbyVars, cfgVars, rcVars, srvVars, obsVars, passVars>>

\* Supervisor::close, the end of the loop body: the Handle is dropped, and
\* with it result_rx and the sender of from_sv
SupervisorDropsHandle ==
    /\ handle = "quit_sent"
    /\ the_game' = [the_game EXCEPT !.handle = "dropped"]
    /\ UNCHANGED <<svVars, playerVars, lobbyVars, cfgVars, rcVars, srvVars, obsVars, passVars>>

\* Supervisor::update_games: Handle::check finds a result, or the channel
\* disconnected, and records it; Handle::collect_result consumes the Handle
SupervisorCollects ==
    /\ handle = "held"
    /\ result_rx # <<>> \/ ~rx_open
    /\ the_game' =
         IF result_rx # <<>>
         THEN [the_game EXCEPT !.collected = Append(@, Head(result_rx)),
                               !.result_rx = Tail(@),
                               !.handle = "collected"]
         ELSE [the_game EXCEPT !.handle = "collected"]
    /\ UNCHANGED <<svVars, playerVars, lobbyVars, cfgVars, rcVars, srvVars, obsVars, passVars>>

\* Game::run entered: channels created, player_results all None, Player tasks spawned
GameInit ==
    \E m \in Matches :
       \E outcome \in MatchOutcomes(m[1] + m[2]) :
          the_game = [g_players |-> m[1],
                      g_computers |-> m[2],
                      engine_results |-> outcome,
                      player_results |-> [i \in 1..m[1] |-> "None"],
                      rx |-> <<>>,
                      from_sv |-> <<>>,
                      to_player |-> [i \in 1..m[1] |-> <<>>],
                      result_rx |-> <<>>,
                      result_log |-> <<>>,
                      g_pc |-> "loop",
                      joined |-> 0,
                      g_result_players |-> <<>>,
                      p_st |-> [i \in 1..m[1] |-> "running"],
                      process |-> [i \in 1..m[1] |-> "running"],
                      handle |-> "held",
                      collected |-> <<>>]

\* No game: the value of the_game in the other specifications
GameIdle ==
    the_game = [g_pc |-> "idle"]

GameNext ==
    \/ \E i \in 1..g_players, over \in BOOLEAN : PlayerIterates(i, over)
    \/ \E i \in 1..g_players, content \in Terminal : PlayerReturns(i, content)
    \/ \E i \in 1..g_players : PlayerPanics(i)
    \/ GameReceives
    \/ GameRxClosed
    \/ GameQuitRequested
    \/ GameJoins
    \/ GameSendsResult
    \/ SupervisorSendsQuit
    \/ SupervisorDropsHandle
    \/ SupervisorCollects

\* ------------------------------------------------------------------------
\* One Player::run (src/src/game/player.rs), frame by frame
\* ------------------------------------------------------------------------

\* The client's requests: a debug request carries a list of debug commands,
\* each a drawing command or another one; any other request is a "step"
DebugLists == {<<>>, <<"draw">>, <<"other">>, <<"draw", "other">>}

ClientRequests ==
    {[kind |-> "step", debug |-> <<>>]} \cup {[kind |-> "debug", debug |-> d] : d \in DebugLists}

MutDeniesEveryDebug(limits, req) == ~(limits.disable_cheats /\ req.kind = "debug")

\* RequestLimits::is_request_allowed
is_request_allowed(limits, req) ==
    ~(/\ limits.disable_cheats
      /\ req.kind = "debug"
      /\ \E i \in DOMAIN req.debug : req.debug[i] # "draw")

\* The player_result lists an observation can carry: (player_id, result)
ObsResults ==
    {<<>>, << <<1, "Victory">>, <<2, "Defeat">> >>, << <<2, "Defeat">>, <<1, "Victory">> >>}

\* The engine's responses
EngineResponses ==
    {[kind |-> k, player_result |-> <<>>] : k \in {"step", "leave_game", "quit"}}
        \cup {[kind |-> "observation", player_result |-> r] : r \in ObsResults}

\* The frame Player::run answers a denied request with
ErrorFrame == [from |-> "proxy", resp |-> [kind |-> "error", player_result |-> <<>>]]

\* The frame client_respond(response) sends
EngineFrame(resp) == [from |-> "engine", resp |-> resp]

\* results_by_id.sort(), by insertion
RECURSIVE insert_by_id(_, _)
insert_by_id(x, s) ==
    IF s = <<>> THEN <<x>>
    ELSE IF x[1] <= Head(s)[1] THEN <<x>> \o s
    ELSE <<Head(s)>> \o insert_by_id(x, Tail(s))

RECURSIVE sort_by_id(_)
sort_by_id(s) == IF s = <<>> THEN <<>> ELSE insert_by_id(Head(s), sort_by_id(Tail(s)))

MutResultsAsReported(obs_results) == [i \in DOMAIN obs_results |-> obs_results[i][2]]

\* results_by_id.into_iter().map(|(_, v)| v).collect()
results_of(obs_results) ==
    LET sorted == sort_by_id(obs_results) IN [i \in DOMAIN sorted |-> sorted[i][2]]

MutQuitReturnsSome(resp) ==
    CASE resp.kind = "quit" -> "Some"
      [] resp.kind = "leave_game" -> "Some"
      [] OTHER -> "continue"

\* Player::run after it has forwarded the response: return None on quit,
\* Some(self) on leave_game, go on otherwise
returns_after(resp) ==
    CASE resp.kind = "quit" -> "None"
      [] resp.kind = "leave_game" -> "Some"
      [] OTHER -> "continue"

\* What Player::run sends to the game for the response
content_for(resp) ==
    CASE resp.kind = "quit" -> <<"QuitBeforeLeave">>
      [] resp.kind = "leave_game" -> <<"LeftGame">>
      [] resp.kind = "observation" /\ resp.player_result # <<>> ->
            <<"GameOver", results_of(resp.player_result)>>
      [] OTHER -> <<>>

\* client_get_request returns Some(req): the request is checked, a denied one
\* is answered with the error frame, and sc2_query sends it to the engine
ClientRequest(req) ==
    /\ pl_pc = "recv" /\ Len(requests) < MaxRequests
    /\ the_player' =
         [the_player EXCEPT
             !.requests = Append(@, req),
             !.client_frames = IF ~is_request_allowed(request_limits, req)
                               THEN Append(@, ErrorFrame)
                               ELSE @,
             !.to_engine = Append(@, req),
             !.pl_pc = "query"]
    /\ UNCHANGED <<svVars, gameVars, lobbyVars, cfgVars, rcVars, srvVars, obsVars, passVars>>

\* sc2_query returns Some(response): the rest of the iteration
EngineResponds(resp, status) ==
    /\ pl_pc = "query"
    /\ the_player' =
         LET forwarded == [the_player EXCEPT
                              !.engine_out = Append(@, resp),
                              !.sc2_status = status,
                              !.client_frames = Append(@, EngineFrame(resp))]
         IN  IF content_for(resp) # <<>> /\ ~game_open
             THEN \* gamec.send: expect("Unable to send to the game")
                  [forwarded EXCEPT !.pl_pc = "panicked"]
             ELSE LET sent == [forwarded EXCEPT
                                  !.to_game = IF content_for(resp) # <<>>
                                              THEN Append(@, content_for(resp))
                                              ELSE @]
                  IN  CASE returns_after(resp) = "None" ->
                             \* self.process.wait()
                             [sent EXCEPT !.pl_process = "exited", !.pl_pc = "none"]
                        [] returns_after(resp) = "Some" ->
                             [sent EXCEPT !.pl_pc = "some"]
                        [] OTHER ->
                             \* gamec.recv()
                             IF gamec_rx # <<>>
                             THEN [sent EXCEPT !.gamec_rx = Tail(@),
                                               !.pl_process = "killed",
                                               !.pl_pc = "none"]
                             ELSE [sent EXCEPT
                                      !.pl_pc = IF game_open THEN "recv" ELSE "panicked"]
    /\ UNCHANGED <<svVars, gameVars, lobbyVars, cfgVars, rcVars, srvVars, obsVars, passVars>>

\* sc2_query returns None: the engine closed the connection
EngineCloses ==
    /\ pl_pc = "query"
    /\ the_player' =
         IF game_open
         THEN [the_player EXCEPT
                  !.to_game = Append(@, <<"SC2UnexpectedConnectionClose">>),
                  !.pl_process = "killed",
                  !.pl_pc = "none"]
         ELSE [the_player EXCEPT !.pl_pc = "panicked"]
    /\ UNCHANGED <<svVars, gameVars, lobbyVars, cfgVars, rcVars, srvVars, obsVars, passVars>>

\* client_get_request returns None: the client closed the connection
ClientCloses ==
    /\ pl_pc = "recv"
    /\ the_player' =
         IF game_open
         THEN [the_player EXCEPT
                  !.to_game = Append(@, <<"UnexpectedConnectionClose">>),
                  !.pl_process = "killed",
                  !.pl_pc = "none"]
         ELSE [the_player EXCEPT !.pl_pc = "panicked"]
    /\ UNCHANGED <<svVars, gameVars, lobbyVars, cfgVars, rcVars, srvVars, obsVars, passVars>>

\* client_get_request panics: a frame that is neither binary nor close
ClientSendsOther ==
    /\ pl_pc = "recv"
    /\ the_player' = [the_player EXCEPT !.pl_pc = "panicked"]
    /\ UNCHANGED <<svVars, gameVars, lobbyVars, cfgVars, rcVars, srvVars, obsVars, passVars>>

\* ChannelToPlayer::send(ToPlayer::Quit), by the holder of the channel
ChannelToPlayer_send ==
    /\ pl_pc \in {"recv", "query"}
    /\ game_open /\ gamec_rx = <<>>
    /\ the_player' = [the_player EXCEPT !.gamec_rx = <<"Quit">>]
    /\ UNCHANGED <<svVars, gameVars, lobbyVars, cfgVars, rcVars, srvVars, obsVars, passVars>>

\* Game::run ends while this Player runs: its channel ends are dropped
GameTaskEnds ==
    /\ pl_pc \in {"recv", "query"}
    /\ game_open
    /\ the_player' = [the_player EXCEPT !.game_open = FALSE]
    /\ UNCHANGED <<svVars, gameVars, lobbyVars, cfgVars, rcVars, srvVars, obsVars, passVars>>

\* Player::new, then run entered
PlayerInit ==
    \E limits \in [disable_cheats : BOOLEAN] :
       the_player = [request_limits |-> limits,
                     pl_pc |-> "recv",
                     requests |-> <<>>,
                     to_engine |-> <<>>,
                     engine_out |-> <<>>,
                     client_frames |-> <<>>,
                     to_game |-> <<>>,
                     gamec_rx |-> <<>>,
                     game_open |-> TRUE,
                     pl_process |-> "running",
                     sc2_status |-> "None"]

\* No Player: the value of the_player in the other specifications
PlayerIdle ==
    the_player = [pl_pc |-> "idle"]

PlayerNext ==
    \/ \E req \in ClientRequests : ClientRequest(req)
    \/ \E resp \in EngineResponses, status \in Status : EngineResponds(resp, status)
    \/ EngineCloses
    \/ ClientCloses
    \/ ClientSendsOther
    \/ ChannelToPlayer_send
    \/ GameTaskEnds

\* ------------------------------------------------------------------------
\* One GameLobby::start (src/src/game/lobby.rs), frame by frame
\* ------------------------------------------------------------------------

\* sc2::Race
Race == {"Protoss", "Terran", "Zerg", "Random"}

MutReadAfterFirstRequest(sent, n) == sent >= 1

\* join_all_game: the loop that sends the requests has ended
all_requests_sent(sent, n) == sent = n

MutComputersFirst(players, computers) ==
    [k \in 1..computers |-> <<"Computer", k>>] \o [k \in DOMAIN players |-> <<"Participant">>]

\* create_game: the player setup of the CreateGame request, a Participant for
\* every player of the lobby, then the computer players (the k-th added is
\* <<"Computer", k>>)
player_configs(players, computers) ==
    [k \in DOMAIN players |-> <<"Participant">>] \o [k \in 1..computers |-> <<"Computer", k>>]

\* create_game: asserts a participant, sends CreateGame to the first engine
\* (the frame <<"create_game", engine, player setup>>) and reads the
\* response; an error response meets unimplemented!()
CreateGame(ok) ==
    /\ lb_pc = "create"
    /\ the_lobby' =
         IF Len(lb_players) = 0
         THEN [the_lobby EXCEPT !.lb_pc = "panicked"]
         ELSE [the_lobby EXCEPT
                  !.lb_log = @ \o << <<"create_game", 1, player_configs(lb_players, lb_computers)>>,
                                     <<"create_game_response", ok>> >>,
                  !.lb_pc = IF ok THEN "send" ELSE "panicked"]
    /\ UNCHANGED <<svVars, gameVars, playerVars, cfgVars, rcVars, srvVars, obsVars, passVars>>

\* join_all_game, first loop: player.sc2_request(proto) for the next player
SendJoinGame ==
    /\ lb_pc = "send"
    /\ the_lobby' =
         [the_lobby EXCEPT
             !.lb_sent = lb_sent + 1,
             !.lb_log = Append(@, <<"join_game", lb_sent + 1, lb_players[lb_sent + 1]>>),
             !.lb_pc = IF all_requests_sent(lb_sent + 1, Len(lb_players))
                       THEN "recv" ELSE "send"]
    /\ UNCHANGED <<svVars, gameVars, playerVars, cfgVars, rcVars, srvVars, obsVars, passVars>>

\* The engine of player i answers the JoinGame request it has received
EngineAnswersJoin(i, ok) ==
    /\ lb_pc \in {"send", "recv"}
    /\ i \in 1..lb_sent /\ join_resp[i] = "none"
    /\ the_lobby' = [the_lobby EXCEPT !.join_resp[i] = IF ok THEN "ok" ELSE "error"]
    /\ UNCHANGED <<svVars, gameVars, playerVars, cfgVars, rcVars, srvVars, obsVars, passVars>>

\* join_all_game, second loop: player.sc2_recv() for the next player; an error
\* response meets unimplemented!(), any other is passed to the client
ReadJoinGame ==
    /\ lb_pc = "recv"
    /\ lb_read < Len(lb_players)
    /\ join_resp[lb_read + 1] # "none"
    /\ the_lobby' =
         IF join_resp[lb_read + 1] = "error"
         THEN [the_lobby EXCEPT
                  !.lb_log = Append(@, <<"join_game_response", lb_read + 1>>),
                  !.lb_pc = "panicked"]
         ELSE [the_lobby EXCEPT
                  !.lb_log = @ \o << <<"join_game_response", lb_read + 1>>,
                                     <<"client_respond", lb_read + 1>> >>,
                  !.lb_read = lb_read + 1,
                  !.lb_pc = IF lb_read + 1 = Len(lb_players) THEN "started" ELSE "recv"]
    /\ UNCHANGED <<svVars, gameVars, playerVars, cfgVars, rcVars, srvVars, obsVars, passVars>>

\* A lobby with its players joined, start() entered
LobbyInit ==
    \E races \in UNION {[1..n -> Race] : n \in 0..MaxPlayers}, computers \in 0..1 :
       the_lobby = [lb_players |-> races,
                    lb_computers |-> computers,
                    lb_pc |-> "create",
                    lb_sent |-> 0,
                    lb_read |-> 0,
                    join_resp |-> [i \in DOMAIN races |-> "none"],
                    lb_log |-> <<>>]

\* No lobby: the value of the_lobby in the other specifications
LobbyIdle ==
    the_lobby = [lb_pc |-> "idle"]

LobbyNext ==
    \/ \E ok \in BOOLEAN : CreateGame(ok)
    \/ SendJoinGame
    \/ \E i \in 1..MaxPlayers, ok \in BOOLEAN : EngineAnswersJoin(i, ok)
    \/ ReadJoinGame

\* ------------------------------------------------------------------------
\* The Config a lobby, its Players and its Game are bound to
\* (src/src/supervisor.rs, src/src/game/lobby.rs)
\* ------------------------------------------------------------------------

\* Player::new(self.config.clone(), connection, data), called by
\* GameLobby::join: Process::new(config.process) launches the engine of the
\* Player with the config it is handed
MutPlayerTakesActiveConfig(cfg) == [config |-> cf.config]

Player_new(cfg) == [config |-> cfg]

\* Request::SetConfig(config): self.config = config.clone()
SetConfig(c) ==
    /\ c # cf.config
    /\ cf' = [cf EXCEPT !.config = c]
    /\ UNCHANGED <<svVars, gameVars, playerVars, lobbyVars, rcVars, srvVars, obsVars, passVars>>

\* Supervisor::create_lobby: GameLobby::new(self.config.clone())
create_lobby ==
    /\ check(cf.config)
    /\ cf.id_counter < MaxGameId
    /\ cf' = [cf EXCEPT !.lobbies = (cf.id_counter :> [config |-> cf.config, players |-> <<>>]) @@ @,
                        !.id_counter = next(@)]
    /\ UNCHANGED <<svVars, gameVars, playerVars, lobbyVars, rcVars, srvVars, obsVars, passVars>>

\* GameLobby::join on the lobby id: Player::new(self.config.clone(), ...)
LobbyJoin(id) ==
    /\ id \in DOMAIN cf.lobbies
    /\ Len(cf.lobbies[id].players) < MaxPlayers
    /\ cf' = [cf EXCEPT !.lobbies[id].players = Append(@, Player_new(cf.lobbies[id].config))]
    /\ UNCHANGED <<svVars, gameVars, playerVars, lobbyVars, rcVars, srvVars, obsVars, passVars>>

\* Game::run: each Player thread runs p.run(thread_config, c) with a clone of
\* the config of the Game
Game_run(game) ==
    [config |-> game.config, players |-> game.players,
     thread_config |-> [i \in DOMAIN game.players |-> game.config]]

\* GameLobby::start on the lobby id, the handshake succeeding:
\* Game { config: self.config, players: self.players }, which spawn_game runs
LobbyStart(id) ==
    /\ id \in DOMAIN cf.lobbies
    /\ cf.lobbies[id].players # <<>>
    /\ cf' = [cf EXCEPT !.lobbies = Without(@, id),
                        !.games = (id :> Game_run([config |-> cf.lobbies[id].config,
                                                   players |-> cf.lobbies[id].players])) @@ @]
    /\ UNCHANGED <<svVars, gameVars, playerVars, lobbyVars, rcVars, srvVars, obsVars, passVars>>

\* Supervisor::new, with the config run_server_config loaded
ConfigInit ==
    cf \in [config : Configs, lobbies : {EmptyMap}, games : {EmptyMap}, id_counter : {0}]

\* The value of cf in the other specifications
ConfigIdle ==
    cf = [id_counter |-> 0]

ConfigNext ==
    \/ \E c \in Configs : SetConfig(c)
    \/ create_lobby
    \/ \E id \in 0..MaxGameId - 1 : LobbyJoin(id)
    \/ \E id \in 0..MaxGameId - 1 : LobbyStart(id)

\* ------------------------------------------------------------------------
\* The remote control endpoint and the Supervisor that serves it
\* (src/src/remote_control/mod.rs, src/src/supervisor.rs update_remote)
\* ------------------------------------------------------------------------

\* A line that serde_json::from_str::<Request> rejects
InvalidLine == <<"invalid">>

\* The lines a remote controller may send
Lines == Request \cup {InvalidLine}

\* process_line, from stream.read_line to the next blocking call: a line that
\* parses is sent to the Supervisor and the thread blocks in rx_send.recv();
\* for any other line the thread writes the Error line itself and reads on
MutInvalidLineForwarded(line) == TRUE

parses(line) == line # InvalidLine

ReadLine(line) ==
    /\ remote.pc = "read"
    /\ IF parses(line)
       THEN remote' = [remote EXCEPT !.recv = Append(@, line), !.pc = "wait", !.answers = 0]
       ELSE remote' = [remote EXCEPT !.errors = TRUE, !.answers = 1]
    /\ UNCHANGED <<svVars, gameVars, playerVars, lobbyVars, cfgVars, srvVars, obsVars, passVars>>

\* process_line, from rx_send.recv() returning a Response: the line is
\* written; after Response::Quit process_line returns Ok and the thread ends
WriteResponse ==
    /\ remote.pc = "wait"
    /\ remote.send # <<>>
    /\ remote' = [remote EXCEPT !.send = Tail(@),
                                !.answers = @ + 1,
                                !.pc = IF Head(remote.send) = <<"Quit">> THEN "done" ELSE "read"]
    /\ UNCHANGED <<svVars, gameVars, playerVars, lobbyVars, cfgVars, srvVars, obsVars, passVars>>

\* rx_send.recv() fails, the control loop having panicked and dropped its
\* Sender: expect("Could not recv")
RecvFails ==
    /\ remote.pc = "wait"
    /\ remote.send = <<>>
    /\ sv_pc = "panicked"
    /\ remote' = [remote EXCEPT !.pc = "panicked"]
    /\ UNCHANGED <<svVars, gameVars, playerVars, lobbyVars, cfgVars, srvVars, obsVars, passVars>>

\* read_line or write fails (the controller has closed the connection):
\* process_line returns Err and run_server accepts the next connection
ConnectionClosed ==
    /\ remote.pc = "read"
    /\ remote' = [remote EXCEPT !.pc = "accept"]
    /\ UNCHANGED <<svVars, gameVars, playerVars, lobbyVars, cfgVars, srvVars, obsVars, passVars>>

\* listener.accept() in run_server
Accept ==
    /\ remote.pc = "accept"
    /\ remote' = [remote EXCEPT !.pc = "read", !.answers = 0, !.errors = FALSE]
    /\ UNCHANGED <<svVars, gameVars, playerVars, lobbyVars, cfgVars, srvVars, obsVars, passVars>>

\* The tick of run_server_config in which remote.try_recv() yields a request:
\* update_remote handles it and sends its Response unless it panics before;
\* after Request::Quit close() runs. outcome is the outcome of lobby.start(),
\* sent the games close() has sent Quit to.
RemoteTick(outcome, sent) ==
    /\ sv_pc = "loop"
    /\ remote.recv # <<>>
    /\ LET req == Head(remote.recv)
       IN IF req[1] = "Quit"
          THEN /\ sent \in SUBSET DOMAIN games
               /\ close(sent)
               /\ remote' = [remote EXCEPT !.recv = Tail(@), !.send = Append(@, <<"Quit">>)]
               /\ UNCHANGED <<config, id_counter, created, nonblocking>>
          ELSE /\ sent = {}
               /\ update_remote(req, outcome)
               /\ remote' = [remote EXCEPT
                                !.recv = Tail(@),
                                !.send = IF update_remote_panics(req, outcome)
                                         THEN @
                                         ELSE Append(@, remote_response(req, outcome))]
    /\ UNCHANGED <<up_i, incoming, detached>>
    /\ UNCHANGED <<gameVars, playerVars, lobbyVars, cfgVars, srvVars, obsVars, passVars>>

\* The clients of S in the order the listener accepted them
RECURSIVE InOrder(_)
InOrder(S) ==
    IF S = {} THEN <<>>
    ELSE LET c == CHOOSE x \in S : \A y \in S : x <= y
         IN <<c>> \o InOrder(S \ {c})

\* Where the Supervisor may hold a client when a controller connects: in the
\* playlist without or with pending_join, or in the lobby 0
Placements == [Clients -> {"idle", "ready", "lobby"}]

\* The Supervisor a remote controller meets, and run_server before its
\* first connection
RemoteInit ==
    /\ \E place \in Placements, has_lobby \in BOOLEAN :
          LET in_playlist == {c \in Clients : place[c] \in {"idle", "ready"}}
              in_lobby == {c \in Clients : place[c] = "lobby"}
          IN /\ in_lobby # {} => has_lobby
             /\ Cardinality(in_lobby) <= MaxPlayers
             /\ playlist = [i \in 1..Cardinality(in_playlist) |->
                               [client |-> InOrder(in_playlist)[i],
                                req |-> place[InOrder(in_playlist)[i]] = "ready"]]
             /\ lobbies = IF has_lobby
                          THEN 0 :> [players |-> InOrder(in_lobby), computer_players |-> 0,
                                     id |-> 0]
                          ELSE EmptyMap
             /\ id_counter = IF has_lobby THEN 1 ELSE 0
             /\ created = IF has_lobby THEN <<0>> ELSE <<>>
             /\ incoming = {}
             /\ nonblocking = [c \in Clients |-> c \in in_playlist]
    /\ config \in Configs
    /\ games = EmptyMap
    /\ sv_pc = "loop" /\ up_i = 0
    /\ dropped = {} /\ detached = {}
    /\ remote = [pc |-> "accept", answers |-> 0, errors |-> FALSE,
                 recv |-> <<>>, send |-> <<>>]

\* No remote controller: the value of remote in the other specifications
RemoteIdle ==
    remote = [pc |-> "idle"]

RemoteNext ==
    \/ Accept
    \/ \E line \in Lines : ReadLine(line)
    \/ \E outcome \in StartOutcomes, sent \in SUBSET DOMAIN games : RemoteTick(outcome, sent)
    \/ WriteResponse
    \/ RecvFails
    \/ ConnectionClosed

\* ------------------------------------------------------------------------
\* run_server_config and the remote control server, connection by connection
\* (src/src/lib.rs, src/src/remote_control/mod.rs)
\* ------------------------------------------------------------------------

\* Connections remote controllers make to the remote control port.
MaxConnections == 2

\* Lines the remote control thread reads over all connections.
MaxLines == 2

\* The lines a remote controller sends here: Quit, a request that is not
\* Quit, and a line that does not parse
ServerLines == {<<"Quit">>, <<"Ping", 7>>, InvalidLine}

\* update_remote and close() return, or panic on the main thread
TickOutcomes == {"ok", "panic"}

\* The process lives as long as its main thread has neither returned nor
\* panicked; its other threads end with it
ProcessAlive == server.main \in {"loop", "join"}

\* run_server: process_line returning Ok(()) breaks the loop and the thread
\* ends; after Err the loop goes back to listener.accept()
MutServesOn(result) == "accept"

after_process_line(result) == IF result = "Ok" THEN "done" ELSE "accept"

\* A remote controller connects: the listener queues the connection
Connect ==
    /\ ProcessAlive
    /\ server.pc \in {"accept", "read", "wait"}
    /\ Len(server.waiting) + Len(server.served) < MaxConnections
    /\ server' = [server EXCEPT
                     !.waiting = Append(@, Len(server.waiting) + Len(server.served) + 1)]
    /\ UNCHANGED <<svVars, gameVars, playerVars, lobbyVars, cfgVars, rcVars, obsVars, passVars>>

\* listener.accept() returns the oldest waiting connection
SrvAccept ==
    /\ ProcessAlive
    /\ server.pc = "accept"
    /\ server.waiting # <<>>
    /\ server' = [server EXCEPT !.conn = Head(server.waiting),
                                !.waiting = Tail(@),
                                !.served = Append(@, Head(server.waiting)),
                                !.pc = "read"]
    /\ UNCHANGED <<svVars, gameVars, playerVars, lobbyVars, cfgVars, rcVars, obsVars, passVars>>

\* process_line reads a line of the connection it serves: a Request goes to
\* the Supervisor and the thread blocks in rx_send.recv(); any other line is
\* answered by the thread itself
SrvReadLine(line) ==
    /\ ProcessAlive
    /\ server.pc = "read"
    /\ server.lines < MaxLines
    /\ IF parses(line)
       THEN server' = [server EXCEPT !.recv = Append(@, <<server.conn, line>>),
                                     !.pc = "wait",
                                     !.lines = @ + 1]
       ELSE server' = [server EXCEPT !.lines = @ + 1]
    /\ UNCHANGED <<svVars, gameVars, playerVars, lobbyVars, cfgVars, rcVars, obsVars, passVars>>

\* rx_send.recv() returns a Response and it is written to the connection;
\* after Response::Quit process_line returns Ok(())
SrvWrite ==
    /\ ProcessAlive
    /\ server.pc = "wait"
    /\ server.send # <<>>
    /\ server' = [server EXCEPT
                     !.send = Tail(@),
                     !.written = Append(@, <<server.conn, Head(server.send)>>),
                     !.pc = IF Head(server.send) = <<"Quit">>
                            THEN after_process_line("Ok")
                            ELSE "read"]
    /\ UNCHANGED <<svVars, gameVars, playerVars, lobbyVars, cfgVars, rcVars, obsVars, passVars>>

\* The connection fails while the Response is still in the channel
MutWriteFailsBeforeRecv ==
    /\ ProcessAlive
    /\ server.pc = "wait"
    /\ server.send # <<>>
    /\ Head(server.send) # <<"Quit">>
    /\ server' = [server EXCEPT !.io_ended = @ \cup {server.conn},
                                !.conn = 0,
                                !.pc = after_process_line("Err")]
    /\ UNCHANGED <<svVars, gameVars, playerVars, lobbyVars, cfgVars, rcVars, obsVars, passVars>>

\* rx_send.recv() returns a Response other than Quit and stream.flush()
\* fails, the controller having closed the connection: process_line returns
\* Err. (The line of Response::Quit is only buffered before return Ok(()).)
SrvWriteFails ==
    /\ ProcessAlive
    /\ server.pc = "wait"
    /\ server.send # <<>>
    /\ Head(server.send) # <<"Quit">>
    /\ server' = [server EXCEPT !.send = Tail(@),
                                !.lost = Append(@, <<server.conn, Head(server.send)>>),
                                !.io_ended = @ \cup {server.conn},
                                !.conn = 0,
                                !.pc = after_process_line("Err")]
    /\ UNCHANGED <<svVars, gameVars, playerVars, lobbyVars, cfgVars, rcVars, obsVars, passVars>>

\* stream.read_line fails, the controller having closed the connection:
\* process_line returns Err
SrvConnectionClosed ==
    /\ ProcessAlive
    /\ server.pc = "read"
    /\ server' = [server EXCEPT !.io_ended = @ \cup {server.conn},
                                !.conn = 0,
                                !.pc = after_process_line("Err")]
    /\ UNCHANGED <<svVars, gameVars, playerVars, lobbyVars, cfgVars, rcVars, obsVars, passVars>>

\* The proxy listener thread panics (accept fails) and drops proxy_sender
ProxyFails ==
    /\ ProcessAlive
    /\ server.proxy = "up"
    /\ server' = [server EXCEPT !.proxy = "failed"]
    /\ UNCHANGED <<svVars, gameVars, playerVars, lobbyVars, cfgVars, rcVars, obsVars, passVars>>

\* A pass of the loop of run_server_config that changes something:
\* proxy_receiver.try_recv() reports Disconnected and the loop breaks, or
\* update_remote takes a request: Request::Quit is answered Quit, close()
\* runs and the loop breaks; any other request is answered. outcome "panic":
\* update_remote or close() panics
MainTick(outcome) ==
    /\ server.main = "loop"
    /\ IF server.proxy = "failed"
       THEN /\ outcome = "ok"
            /\ server' = [server EXCEPT !.main = IF server.enabled THEN "join" ELSE "returned"]
       ELSE /\ server.recv # <<>>
            /\ LET req == Head(server.recv)[2]
               IN IF req = <<"Quit">>
                  THEN server' = [server EXCEPT
                                     !.recv = Tail(@),
                                     !.send = Append(@, <<"Quit">>),
                                     !.main = IF outcome = "panic" THEN "panicked" ELSE "join"]
                  ELSE IF outcome = "panic"
                       THEN server' = [server EXCEPT !.recv = Tail(@), !.main = "panicked"]
                       ELSE server' = [server EXCEPT !.recv = Tail(@), !.send = Append(@, req)]
    /\ UNCHANGED <<svVars, gameVars, playerVars, lobbyVars, cfgVars, rcVars, obsVars, passVars>>

\* r.handle.join().unwrap() returns once the remote control thread has ended
MainJoin ==
    /\ server.main = "join"
    /\ server.pc = "done"
    /\ server' = [server EXCEPT !.main = "returned"]
    /\ UNCHANGED <<svVars, gameVars, playerVars, lobbyVars, cfgVars, rcVars, obsVars, passVars>>

\* run_server_config before the first pass of its loop
ServerInit ==
    \E enabled \in BOOLEAN :
        server = [main |-> "loop", proxy |-> "up", enabled |-> enabled,
                  pc |-> IF enabled THEN "accept" ELSE "off",
                  conn |-> 0, waiting |-> <<>>, served |-> <<>>, io_ended |-> {},
                  recv |-> <<>>, send |-> <<>>, written |-> <<>>, lost |-> <<>>,
              lines |-> 0]

\* The value of server in the other specifications
ServerIdle ==
    server = [main |-> "idle"]

ServerNext ==
    \/ Connect
    \/ SrvAccept
    \/ \E line \in ServerLines : SrvReadLine(line)
    \/ SrvWrite
    \/ SrvWriteFails
    \/ SrvConnectionClosed
    \/ ProxyFails
    \/ \E outcome \in TickOutcomes : MainTick(outcome)
    \/ MainJoin

\* ------------------------------------------------------------------------
\* The Players of one match reading the observation that ends the game
\* (src/src/game/player.rs)
\* ------------------------------------------------------------------------

\* Players of the match, each reported once in an observation's player_result.
MaxResults == 2

\* The player_result lists an engine may report for the match: one
\* (player_id, result) for each of some players, in any order
ResultLists ==
    UNION {{r \in [1..n -> (1..MaxResults) \X PlayerResult] :
                \A i, j \in 1..n : i # j => r[i][1] # r[j][1]} : n \in 0..MaxResults}

\* Player::run of Player p forwards the observation of its engine: with
\* results in it, GameOver(results) is sent to the game
Observe(p) ==
    /\ observers[p].sent = <<"pending">>
    /\ observers' = [observers EXCEPT ![p].sent =
                        content_for([kind |-> "observation",
                                     player_result |-> observers[p].obs])]
    /\ UNCHANGED <<svVars, gameVars, playerVars, lobbyVars, cfgVars, rcVars, srvVars, passVars>>

\* Each engine has the observation of its Player ready
ObserversInit ==
    observers \in [1..2 -> [obs : ResultLists, sent : {<<"pending">>}]]

\* The value of observers in the other specifications
ObserversIdle ==
    observers = <<>>

ObserversNext == \E p \in 1..2 : Observe(p)

\* ------------------------------------------------------------------------
\* One pass of Supervisor::update_playlist over a playlist, with what it has
\* polled (src/src/supervisor.rs)
\* ------------------------------------------------------------------------

\* Entries of the playlist the pass starts with.
MaxPlaylist == 3

\* What an iteration does to the playlist besides reading: nothing (Respond,
\* WouldBlock), drop_client (Kick, RespondQuit, a socket error), or
\* playlist_join_game, which removes the entry and, in the RemoteController
\* branch, pushes it back
PollEffects == {"keep", "drop", "join", "join_push"}

MutPushFront(pl, entry) == <<entry>> \o pl

\* self.playlist.push(entry)
push(pl, entry) == Append(pl, entry)

\* The playlist after the iteration at index i
after_poll(pl, i, effect) ==
    CASE effect = "keep" -> pl
      [] effect \in {"drop", "join"} -> RemoveAt(pl, i)
      [] effect = "join_push" ->
           IF pl[i].req
           THEN \* old_req != None: return None after the remove
                RemoveAt(pl, i)
           ELSE push(RemoveAt(pl, i), pending_join(pl[i].client))

\* for i in (0..self.playlist.len()).rev(): one iteration; self.playlist[i]
\* and self.playlist.remove(i) panic when i is out of bounds
PassStep(effect) ==
    /\ pass.pc = "loop"
    /\ pass' =
         IF pass.i \notin DOMAIN pass.playlist
         THEN [pass EXCEPT !.pc = "panicked"]
         ELSE [pass EXCEPT
                  !.playlist = after_poll(@, pass.i, effect),
                  !.polled = Append(@, pass.playlist[pass.i].client),
                  !.i = @ - 1,
                  !.pc = IF pass.i = 1 THEN "done" ELSE "loop"]
    /\ UNCHANGED <<svVars, gameVars, playerVars, lobbyVars, cfgVars, rcVars, srvVars, obsVars>>

\* update_playlist entered: the playlist holds distinct clients, with or
\* without a pending join request each
PassInit ==
    \E n \in 0..MaxPlaylist :
       \E reqs \in [1..n -> BOOLEAN] :
          LET pl == [k \in 1..n |-> [client |-> k, req |-> reqs[k]]]
          IN  pass = [playlist |-> pl, start |-> pl, i |-> n, polled |-> <<>>,
                      pc |-> IF n = 0 THEN "done" ELSE "loop"]

\* The value of pass in the other specifications
PassIdle ==
    pass = [pc |-> "idle"]

PassNext == \E effect \in PollEffects : PassStep(effect)

\* ------------------------------------------------------------------------
\* The specifications
\* ------------------------------------------------------------------------

\* No Supervisor: the values of its variables in the other specifications
SvIdle ==
    /\ config = [mode |-> "Pairs", map_ok |-> TRUE]
    /\ games = EmptyMap /\ lobbies = EmptyMap /\ playlist = <<>>
    /\ id_counter = 0 /\ sv_pc = "idle" /\ up_i = 0
    /\ incoming = {} /\ dropped = {} /\ detached = {}
    /\ nonblocking = [c \in Clients |-> FALSE]
    /\ created = <<>>

Init == SvInit /\ GameIdle /\ PlayerIdle /\ LobbyIdle /\ ConfigIdle /\ RemoteIdle /\ ServerIdle /\ ObserversIdle /\ PassIdle

Next == SvNext

Spec == Init /\ [][Next]_vars

InitGame == SvIdle /\ GameInit /\ PlayerIdle /\ LobbyIdle /\ ConfigIdle /\ RemoteIdle /\ ServerIdle /\ ObserversIdle /\ PassIdle

SpecGame == InitGame /\ [][GameNext]_vars

\* The Game task is a thread of its own and keeps running: each step of
\* Game::run happens when it can
SpecGameLive ==
    /\ SpecGame
    /\ WF_vars(GameReceives)
    /\ WF_vars(GameRxClosed)
    /\ WF_vars(GameQuitRequested)
    /\ WF_vars(GameJoins)
    /\ WF_vars(GameSendsResult)

InitPlayer == SvIdle /\ GameIdle /\ PlayerInit /\ LobbyIdle /\ ConfigIdle /\ RemoteIdle /\ ServerIdle /\ ObserversIdle /\ PassIdle

SpecPlayer == InitPlayer /\ [][PlayerNext]_vars

InitLobby == SvIdle /\ GameIdle /\ PlayerIdle /\ LobbyInit /\ ConfigIdle /\ RemoteIdle /\ ServerIdle /\ ObserversIdle /\ PassIdle

SpecLobby == InitLobby /\ [][LobbyNext]_vars

InitConfig == SvIdle /\ GameIdle /\ PlayerIdle /\ LobbyIdle /\ ConfigInit /\ RemoteIdle /\ ServerIdle /\ ObserversIdle /\ PassIdle

SpecConfig == InitConfig /\ [][ConfigNext]_vars

InitRemote == RemoteInit /\ GameIdle /\ PlayerIdle /\ LobbyIdle /\ ConfigIdle /\ ServerIdle /\ ObserversIdle /\ PassIdle

SpecRemote == InitRemote /\ [][RemoteNext]_vars

InitServer == SvIdle /\ GameIdle /\ PlayerIdle /\ LobbyIdle /\ ConfigIdle /\ RemoteIdle /\ ServerInit /\ ObserversIdle /\ PassIdle

SpecServer == InitServer /\ [][ServerNext]_vars

InitObservers == SvIdle /\ GameIdle /\ PlayerIdle /\ LobbyIdle /\ ConfigIdle /\ RemoteIdle /\ ServerIdle /\ ObserversInit /\ PassIdle

SpecObservers == InitObservers /\ [][ObserversNext]_vars

InitPass == SvIdle /\ GameIdle /\ PlayerIdle /\ LobbyIdle /\ ConfigIdle /\ RemoteIdle /\ ServerIdle /\ ObserversIdle /\ PassInit

SpecPass == InitPass /\ [][PassNext]_vars

\* The main thread and the remote control thread keep running: a pass of the
\* loop, join() and every step of the thread that waits for no controller
\* happen when they can
SpecServerLive ==
    /\ SpecServer
    /\ WF_vars(\E outcome \in TickOutcomes : MainTick(outcome))
    /\ WF_vars(MainJoin)
    /\ WF_vars(SrvAccept)
    /\ WF_vars(SrvWrite)

\* ------------------------------------------------------------------------
\* Claims about the Supervisor (checked under Spec)
\* ------------------------------------------------------------------------

\* The places that hold the connection of client c, counted
InPlaylist(c) == Cardinality({i \in DOMAIN playlist : playlist[i].client = c})

InLobbies(c) ==
    Cardinality({p \in UNION {{id} \X DOMAIN lobbies[id].players : id \in DOMAIN lobbies} :
                    lobbies[p[1]].players[p[2]] = c})

InGames(c) ==
    Cardinality({p \in UNION {{id} \X DOMAIN games[id].players : id \in DOMAIN games} :
                    games[p[1]].players[p[2]] = c})
    + Cardinality({p \in UNION {{id} \X DOMAIN games[id].returned : id \in DOMAIN games} :
                    games[p[1]].returned[p[2]].client = c})
    + (IF c \in detached THEN 1 ELSE 0)

Places(c) == InPlaylist(c) + InLobbies(c) + InGames(c) + (IF c \in dropped THEN 1 ELSE 0)

\* C1: every client the Supervisor was handed is held in exactly one place:
\* one playlist entry, one Player of one lobby, one Player of one game (running,
\* returned by it or detached from it), or it has been dropped; a client not
\* handed over yet is in none.
C1_ExactlyOnePlace ==
    \A c \in Clients : Places(c) = (IF c \in incoming THEN 0 ELSE 1)

\* Witness of C1: after joins, one client is a Player of a running game while
\* another is a Player of a lobby.
C1_Witness ==
    /\ \E id \in DOMAIN games : games[id].players # <<>>
    /\ \E id \in DOMAIN lobbies : lobbies[id].players # <<>>

\* C3: a game is registered under the id its lobby was created under and a
\* lobby stays under that id; an id comes to name a lobby or a game only
\* as the fresh id create_lobby allocates or as the id of the lobby the game
\* is started from, so the id of a lobby that was removed without becoming a
\* game never names a game.
C3_GameKeepsLobbyId ==
    /\ [](/\ \A k \in DOMAIN games : games[k].id = k
          /\ \A k \in DOMAIN lobbies : lobbies[k].id = k)
    /\ [][/\ \A k \in DOMAIN games' \ DOMAIN games :
                \/ k \in DOMAIN lobbies /\ k \notin DOMAIN lobbies'
                \/ k = id_counter /\ id_counter' = next(k)
          /\ \A k \in DOMAIN lobbies' \ DOMAIN lobbies :
                k = id_counter /\ id_counter' = next(k)]_vars

\* Witness of C3: a game runs under the id of the lobby it was started
\* from, while an older id names neither a lobby nor a game any more.
C3_Witness ==
    \E k \in DOMAIN games :
        /\ games[k].phase = "running" /\ games[k].players # <<>>
        /\ \E old \in 0..(k - 1) : old \notin DOMAIN games \cup DOMAIN lobbies

\* C4: the ids create_lobby returned are strictly increasing, the key sets of
\* lobbies and games are disjoint, and every key is below id_counter.
C4_IdsMonotonic ==
    /\ \A i, j \in DOMAIN created : i < j => created[i] < created[j]
    /\ DOMAIN lobbies \cap DOMAIN games = {}
    /\ \A k \in DOMAIN lobbies \cup DOMAIN games : k < id_counter

\* Witness of C4: a second id was allocated after the first one's lobby or
\* game was gone.
C4_Witness ==
    /\ Len(created) >= 2
    /\ created[1] \notin DOMAIN lobbies \cup DOMAIN games
    /\ created[2] \in DOMAIN lobbies \cup DOMAIN games

\* ------------------------------------------------------------------------
\* Claims about the Game task (SpecGame)
\* ------------------------------------------------------------------------

\* C2: every GameResult with end_reason Normal that Game::run sends has one
\* entry per Player the game was started with, and no entry is missing or
\* Undecided, games with computer players included.
C2_NormalResultPerPlayer ==
    \A k \in DOMAIN result_log :
        result_log[k].end_reason = "Normal" =>
            /\ Len(result_log[k].player_results) = g_players
            /\ \A i \in DOMAIN result_log[k].player_results :
                  result_log[k].player_results[i] \notin {"None", "Undecided"}

\* C8: once the Game has taken FromSupervisor::Quit from its channel, every
\* Player of the game that still runs has ToPlayer::Quit on its channel.
C8_QuitReachesEveryPlayer ==
    (handle \in {"quit_sent", "dropped"} /\ from_sv = <<>>) =>
        \A i \in 1..g_players : p_st[i] # "running" \/ to_player[i] # <<>>

\* C9: a Game task sends at most one GameResult over its whole life, and the
\* Handle records at most one.
C9_AtMostOneResult ==
    /\ Len(result_log) <= 1
    /\ Len(collected) <= 1

\* C9: the game has ended normally, and its one result has been collected
C9_Witness ==
    /\ g_pc = "done"
    /\ Len(result_log) = 1
    /\ collected = result_log
    /\ handle = "collected"

\* ------------------------------------------------------------------------
\* Claims about Player::run (SpecPlayer)
\* ------------------------------------------------------------------------

\* C5: a request that is_request_allowed denies is never sent to the engine.
C5_DeniedNotForwarded ==
    \A k \in DOMAIN to_engine : is_request_allowed(request_limits, to_engine[k])

IsEngineFrame(f) == f.from = "engine"

ForwardedResponses ==
    LET frames == SelectSeq(client_frames, IsEngineFrame)
    IN  [k \in DOMAIN frames |-> frames[k].resp]

\* C6: whenever Player::run waits for the next request, the client has
\* received exactly one frame for each request it sent, and the engine frames
\* among them are the engine's responses, in order.
C6_OneFramePerRequest ==
    pl_pc = "recv" =>
        /\ Len(client_frames) = Len(requests)
        /\ ForwardedResponses = engine_out

LastForwardedKind ==
    IF ForwardedResponses = <<>> THEN "none"
    ELSE ForwardedResponses[Len(ForwardedResponses)].kind

\* C7: Player::run returns Some(self) exactly when the last engine response
\* it forwarded was a leave_game response; when it returns None the engine
\* has been killed, or waited for after a quit response.
C7_SomeIffLeftGame ==
    /\ pl_pc = "some" => LastForwardedKind = "leave_game"
    /\ LastForwardedKind = "leave_game" => pl_pc \in {"some", "panicked"}
    /\ pl_pc = "none" =>
          \/ pl_process = "killed"
          \/ pl_process = "exited" /\ LastForwardedKind = "quit"

\* C7: run has returned Some(self) after more than one forwarded response
C7_Witness ==
    /\ pl_pc = "some"
    /\ Len(engine_out) = 2
    /\ pl_process = "running"

\* ------------------------------------------------------------------------
\* Claims about the lobby handshake (SpecLobby)
\* ------------------------------------------------------------------------

\* The JoinGame responses read before position k of the log
ResponsesReadBefore(k) ==
    Cardinality({j \in 1..(k - 1) : lb_log[j][1] = "join_game_response"})

\* C10: when a JoinGame response is read or passed to a client, a JoinGame
\* request has been sent to the engine of every participant; the responses
\* are read in participant order.
C10_RequestsBeforeResponses ==
    \A k \in DOMAIN lb_log :
        /\ lb_log[k][1] \in {"join_game_response", "client_respond"} =>
              \A i \in DOMAIN lb_players :
                  \E j \in 1..(k - 1) : lb_log[j][1] = "join_game" /\ lb_log[j][2] = i
        /\ lb_log[k][1] = "join_game_response" => lb_log[k][2] = ResponsesReadBefore(k) + 1

\* C10: a lobby of two participants has started
C10_Witness ==
    /\ lb_pc = "started"
    /\ Len(lb_players) = 2
    /\ lb_read = 2

\* The response start() has read last is an error response: the CreateGame
\* response of the first engine, or the JoinGame response of a participant
ErrorRead ==
    /\ lb_log # <<>>
    /\ LET last == lb_log[Len(lb_log)]
       IN \/ last[1] = "create_game_response" /\ ~last[2]
          \/ last[1] = "join_game_response" /\ join_resp[last[2]] = "error"

\* C11: when the engine has answered CreateGame or a participant's JoinGame
\* with an error, start ends with an error outcome its caller can handle:
\* it does not panic.
C11_StartFailsWithError == ErrorRead => lb_pc # "panicked"

\* ------------------------------------------------------------------------
\* Claims about failures and the remote controller (Spec)
\* ------------------------------------------------------------------------

\* Whether playlist_join_game(index, req) calls lobby.start()
JoinStarts(index) ==
    /\ ~playlist[index].req
    /\ \/ config.mode = "AgainstBuiltinAI" /\ check(config)
       \/ config.mode = "Pairs" /\ DOMAIN lobbies # {}

\* A step of the control loop in which lobby.start() meets an error response
\* of an engine, the lobby being started by a join request or by StartGame
HandshakeFails ==
    \/ /\ up_i > 0
       /\ JoinStarts(up_i)
       /\ \E outcome \in StartOutcomes \ {"game"}, key \in DOMAIN lobbies \cup {0} :
             UpdatePlaylistStep("JoinGame", outcome, key)
    \/ \E g \in DOMAIN lobbies :
          /\ is_valid(lobbies[g])
          /\ \E outcome \in StartOutcomes \ {"game"} : UpdateRemote(<<"StartGame", g>>, outcome)

\* C12: a CreateGame/JoinGame error in the handshake of one lobby leaves the
\* control loop running and every running game as it was.
C12_SupervisorSurvives ==
    [][HandshakeFails => sv_pc' = "loop" /\ games' = games]_vars

\* A join request that calls create_lobby while map_name is missing or does
\* not resolve
InvalidJoin ==
    /\ up_i > 0
    /\ ~config.map_ok
    /\ ~playlist[up_i].req
    /\ \/ config.mode = "AgainstBuiltinAI"
       \/ config.mode = "Pairs" /\ DOMAIN lobbies = {}
    /\ \E outcome \in StartOutcomes : UpdatePlaylistStep("JoinGame", outcome, 0)

\* A remote CreateLobby while map_name is missing or does not resolve
InvalidCreateLobby ==
    /\ ~config.map_ok
    /\ \E outcome \in StartOutcomes : UpdateRemote(<<"CreateLobby">>, outcome)

PairsJoin ==
    /\ up_i > 0
    /\ up_i' # up_i
    /\ config.mode = "Pairs"
    /\ \E outcome \in StartOutcomes, key \in DOMAIN lobbies \cup {0} :
          UpdatePlaylistStep("JoinGame", outcome, key)

\* A tick in which update_remote receives a request
RemoteStep ==
    \/ \E req \in Request, outcome \in StartOutcomes : UpdateRemote(req, outcome)
    \/ \E sent \in SUBSET DOMAIN games : UpdateRemoteQuit(sent)

\* What Pairs matchmaking alone leaves in self.lobbies: at most one lobby,
\* holding the one client that waits for its opponent
PairsShape ==
    /\ Cardinality(DOMAIN lobbies) <= 1
    /\ \A id \in DOMAIN lobbies :
          Len(lobbies[id].players) = 1 /\ lobbies[id].computer_players = 0

\* The games a step has inserted
StartedGames == {id \in DOMAIN games' : id \notin DOMAIN games}

Pending(c) == \E i \in DOMAIN playlist : playlist[i].client = c /\ playlist[i].req

\* The join request of the playlist client at up_i is handled
JoinRequest ==
    /\ up_i > 0
    /\ up_i' # up_i
    /\ \E outcome \in StartOutcomes, key \in DOMAIN lobbies \cup {0} :
          UpdatePlaylistStep("JoinGame", outcome, key)

\* C15, as claimed: a playlist entry has pending_join set only while the
\* current matchmaking mode is RemoteController.
C15_PendingOnlyInRemoteMode ==
    \A i \in DOMAIN playlist : playlist[i].req => config.mode = "RemoteController"

\* C15, amended: pending_join is set by a join request handled while the
\* mode is RemoteController, and by nothing else; that request moves the
\* entry to the end of the playlist with pending_join set and creates no lobby
\* and no game; SetConfig leaves the playlist as it is, so the flag outlives
\* the mode; the flag stays set as long as the entry is in the playlist.
C15_PendingJoin ==
    [][/\ (/\ config.mode = "RemoteController"
           /\ up_i \in DOMAIN playlist
           /\ ~playlist[up_i].req
           /\ JoinRequest) =>
             /\ playlist' = Append(RemoveAt(playlist, up_i),
                                   [client |-> playlist[up_i].client, req |-> TRUE])
             /\ lobbies' = lobbies /\ games' = games /\ id_counter' = id_counter
             /\ dropped' = dropped
       /\ \/ playlist' = playlist
          \/ \A c \in Clients :
                /\ (Pending(c)' /\ ~Pending(c)) =>
                      /\ config.mode = "RemoteController" /\ JoinRequest
                      /\ playlist[up_i].client = c
                /\ (Pending(c) /\ ~Pending(c)') =>
                      \A i \in DOMAIN playlist' : playlist'[i].client # c
       /\ config' # config => playlist' = playlist]_vars

\* C15: an entry has pending_join set while the mode is no longer
\* RemoteController
C15_Witness ==
    \E i \in DOMAIN playlist : playlist[i].req /\ config.mode = "Pairs"

\* ------------------------------------------------------------------------
\* Claims about the config snapshots (SpecConfig)
\* ------------------------------------------------------------------------

\* The lobby or Game is bound to the config every engine of it was launched with
OneConfig(g) == \A i \in DOMAIN g.players : g.players[i].config = g.config

\* Every Player thread of the Game runs with the config of the Game
ThreadsUseGameConfig(g) == \A i \in DOMAIN g.thread_config : g.thread_config[i] = g.config

\* C16: SetConfig replaces the active config and changes no lobby and no
\* game; a lobby is bound to the config active when it was created and keeps
\* it; the engines of its Players, whenever they join, are launched with
\* the lobby's config, and its Game and the Player threads of the Game run
\* with it.
C16_SnapshotsKept ==
    /\ [](/\ \A id \in DOMAIN cf.lobbies : OneConfig(cf.lobbies[id])
          /\ \A id \in DOMAIN cf.games :
                OneConfig(cf.games[id]) /\ ThreadsUseGameConfig(cf.games[id]))
    /\ [][/\ cf'.config # cf.config =>
                cf'.lobbies = cf.lobbies /\ cf'.games = cf.games
          /\ \A id \in DOMAIN cf'.lobbies :
                IF id \in DOMAIN cf.lobbies
                THEN cf'.lobbies[id].config = cf.lobbies[id].config
                ELSE cf'.lobbies[id].config = cf.config
          /\ \A id \in DOMAIN cf'.games :
                IF id \in DOMAIN cf.games
                THEN cf'.games[id] = cf.games[id]
                ELSE cf'.games[id].config = cf.lobbies[id].config]_vars

\* C16: a lobby created under an older config holds a Player, a Game started
\* from a lobby of an older config runs, and the active config differs from both
C16_Witness ==
    \E l \in DOMAIN cf.lobbies, g \in DOMAIN cf.games :
        /\ cf.lobbies[l].config # cf.config
        /\ cf.lobbies[l].players # <<>>
        /\ cf.games[g].config # cf.config
        /\ cf.games[g].config # cf.lobbies[l].config

\* ------------------------------------------------------------------------
\* Claims about the remote control endpoint (SpecRemote)
\* ------------------------------------------------------------------------

\* The tick in which update_remote receives the request req
Handles(req) ==
    /\ sv_pc = "loop"
    /\ remote.recv # <<>>
    /\ Head(remote.recv) = req
    /\ remote'.recv = Tail(remote.recv)

\* remote.send(resp) in this step
Answers(resp) == remote'.send = Append(remote.send, resp)

\* remote.send(Response::Error(..)) in this step
AnswersError ==
    /\ Len(remote'.send) = Len(remote.send) + 1
    /\ SubSeq(remote'.send, 1, Len(remote.send)) = remote.send
    /\ remote'.send[Len(remote'.send)][1] = "Error"

\* C17: AddToLobby(game_id, client_id) answers AddToLobby only for a
\* playlist entry with pending_join, and then the client has moved from the
\* playlist to the end of the lobby; for an entry without pending_join it
\* answers Error("Client not ready"), the client leaves the playlist and is
\* dropped and no lobby changes; for an unknown client it answers an Error
\* and neither the playlist nor the lobbies change.
C17_AddToLobby ==
    [][\/ remote'.recv = remote.recv
       \/ \A g \in 0..MaxGameId - 1, c \in Clients :
             Handles(<<"AddToLobby", g, c>>) =>
                /\ Answers(<<"AddToLobby">>) =>
                      /\ Pending(c)
                      /\ \A i \in DOMAIN playlist' : playlist'[i].client # c
                      /\ Len(playlist') = Len(playlist) - 1
                      /\ lobbies' = [lobbies EXCEPT ![g].players = Append(@, c)]
                /\ (InPlaylist(c) > 0 /\ ~Pending(c)) =>
                      /\ Answers(<<"Error", "Client not ready">>)
                      /\ \A i \in DOMAIN playlist' : playlist'[i].client # c
                      /\ Len(playlist') = Len(playlist) - 1
                      /\ c \in dropped'
                      /\ lobbies' = lobbies
                /\ InPlaylist(c) = 0 =>
                      /\ AnswersError
                      /\ playlist' = playlist
                      /\ lobbies' = lobbies]_vars

\* C17: AddToLobby has been answered for a client that is now in a lobby,
\* while another client has been refused as not ready
C17_Witness ==
    /\ remote.send = << <<"AddToLobby">> >>
    /\ \E g \in DOMAIN lobbies : lobbies[g].players # <<>>
    /\ dropped # {}

\* C18: StartGame(game_id) on a lobby without participants answers
\* Error("The lobby is empty") and starts no game; on a lobby with
\* participants it either inserts a game under game_id and answers StartGame
\* or, the handshake failing, answers an Error, the participants are dropped
\* and no game exists under game_id.
C18_StartGameAnswered ==
    [][\A g \in DOMAIN lobbies :
          Handles(<<"StartGame", g>>) =>
             IF lobbies[g].players = <<>>
             THEN Answers(<<"Error", "The lobby is empty">>) /\ games' = games
             ELSE \/ /\ Answers(<<"StartGame">>)
                     /\ g \in DOMAIN games' /\ g \notin DOMAIN games
                     /\ games'[g].players = lobbies[g].players
                  \/ /\ AnswersError
                     /\ Range(lobbies[g].players) \subseteq dropped'
                     /\ g \notin DOMAIN games']_vars

\* C19: for every Request and every Supervisor state the tick in which
\* update_remote receives the request sends exactly one Response and leaves
\* the control loop running (or closed, after Quit); the server thread
\* waits only while a request or its response is in flight, and has written
\* exactly one Response line for a request when it reads the next line.
C19_OneResponsePerRequest ==
    /\ [](/\ remote.pc = "wait" => Len(remote.recv) + Len(remote.send) = 1
          /\ remote.pc = "read" => remote.recv = <<>> /\ remote.send = <<>>
          /\ remote.answers <= 1)
    /\ [][\A req \in Request :
             Handles(req) =>
                /\ Len(remote'.send) = Len(remote.send) + 1
                /\ sv_pc' = IF req[1] = "Quit" THEN "closed" ELSE "loop"]_vars

\* C20: only lines that parse as a Request reach the Supervisor; a line that
\* does not is answered by the server thread with one Error line in the same
\* iteration, which changes neither the Supervisor nor the channels and
\* leaves the thread reading the same connection; a Request read after it
\* on that connection is sent to the Supervisor as usual.
C20_InvalidLineAnsweredLocally ==
    /\ [](\A i \in DOMAIN remote.recv : remote.recv[i] \in Request)
    /\ [][/\ (remote.pc = "read" /\ remote'.pc = "read") =>
                /\ remote'.errors /\ remote'.answers = 1
                /\ UNCHANGED <<svVars, remote.recv, remote.send>>
          /\ (remote.errors /\ remote.pc = "read" /\ remote'.pc = "wait") =>
                /\ remote'.recv \in {<<req>> : req \in Request}
                /\ remote'.answers = 0
                /\ UNCHANGED <<svVars, remote.send, remote.errors>>
          /\ (remote.errors /\ remote.pc = "wait" /\ remote'.pc = "read") =>
                /\ remote'.answers = 1
                /\ remote.send = <<>> \/ remote'.send = Tail(remote.send)]_vars

\* C20: on a connection on which an invalid line was answered, the server
\* thread has since written the Response to a Request and, after Quit, ended
C20_Witness ==
    /\ remote.errors
    /\ remote.pc = "done"
    /\ remote.answers = 1
    /\ sv_pc = "closed"

\* ------------------------------------------------------------------------
\* Claims about shutdown and the remote control server
\* ------------------------------------------------------------------------

\* The tick in which update_remote receives Request::Quit
QuitTick == \E sent \in SUBSET DOMAIN games : UpdateRemoteQuit(sent)

\* C21: on a remote Quit request update_remote returns Quit, the main loop
\* calls close() and exits: the control loop ends closed, not by a panic,
\* so that run_server_config goes on to join the remote control thread.
C21_QuitClosesAndExits ==
    [][QuitTick => sv_pc' = "closed"]_vars

\* The step in which listener.accept() hands the thread a connection
Accepts == server'.served # server.served

\* C22: the remote control server serves one connection at a time: every
\* request in the channel to the Supervisor was read from the connection
\* being served; a connection is accepted only while none is being served,
\* after every connection served before has ended with an I/O error, and
\* never after a Quit response has been written.
C22_OneConnectionAtATime ==
    /\ [](\A i \in DOMAIN server.recv :
              server.conn # 0 /\ server.recv[i][1] = server.conn)
    /\ [][Accepts =>
            /\ server.conn = 0
            /\ server'.conn = Head(server.waiting)
            /\ Range(server.served) \subseteq server.io_ended
            /\ \A i \in DOMAIN server.written : server.written[i][2] # <<"Quit">>]_vars

\* C22: a second connection has been accepted after the first one sent a
\* request and ended, and a request of the second is with the Supervisor
C22_Witness ==
    /\ Len(server.served) = 2
    /\ server.lines = 2
    /\ server.recv = <<<<2, <<"Ping", 7>>>>>>
    /\ server.io_ended = {1}

\* ------------------------------------------------------------------------
\* Claims about the control loop and the handshake it runs
\* ------------------------------------------------------------------------

\* join_all_game is at player.sc2_recv() for an engine that has not answered
\* its JoinGame request yet: the thread running start() waits for that engine
WaitsForEngine ==
    /\ lb_pc = "recv"
    /\ lb_read < Len(lb_players)
    /\ join_resp[lb_read + 1] = "none"

\* C23: the control loop never blocks: the handshake of lobby.start(), which
\* playlist_join_game and update_remote run on the thread of the control
\* loop, never waits for an engine to act.
C23_TickNeverWaits == ~WaitsForEngine

\* ------------------------------------------------------------------------
\* Claims about the GameOver vector
\* ------------------------------------------------------------------------

\* The results of the set S of (player_id, result) in ascending player id
ascending(S) ==
    [i \in 1..Cardinality(S) |->
        (CHOOSE x \in S : Cardinality({y \in S : y[1] < x[1]}) = i - 1)[2]]

\* What a Player sends for an observation reporting the set S
GameOverFor(S) == IF S = {} THEN <<>> ELSE <<"GameOver", ascending(S)>>

\* C24: the GameOver vector a Player sends lists the results of its
\* observation in ascending player id, whatever their order in the
\* observation: Players observing the same results send the same GameOver.
C24_GameOverOrderFree ==
    /\ \A p \in 1..2 :
          observers[p].sent # <<"pending">> =>
              observers[p].sent = GameOverFor(Range(observers[p].obs))
    /\ \A p, q \in 1..2 :
          (/\ observers[p].sent # <<"pending">>
           /\ observers[q].sent # <<"pending">>
           /\ Range(observers[p].obs) = Range(observers[q].obs)) =>
              observers[p].sent = observers[q].sent

\* C24: two Players have sent GameOver for the same results, which their
\* observations list in different orders, one of them not by ascending id
C24_Witness ==
    /\ observers[1].obs # observers[2].obs
    /\ Range(observers[1].obs) = Range(observers[2].obs)
    /\ observers[1].obs[1][1] > observers[1].obs[2][1]
    /\ observers[1].sent[1] = "GameOver"
    /\ observers[2].sent[1] = "GameOver"

\* ------------------------------------------------------------------------
\* Claims about finished games
\* ------------------------------------------------------------------------

\* update_games collects at least one finished game
CollectsGames ==
    \E order \in Orders({id \in DOMAIN games : Handle_check(games[id])}) : UpdateGames(order)

\* C25: whenever update_games calls extract_client on the Players a
\* finished Game returned, each has the cached status launched: the
\* assertion holds, the control loop goes on, and the client of every
\* survivor is back in the playlist, non-blocking and without pending_join.
C25_SurvivorsReenterPlaylist ==
    [][CollectsGames =>
          /\ sv_pc' = "loop"
          /\ \A id \in DOMAIN games :
                Handle_check(games[id]) =>
                    \A i \in DOMAIN games[id].returned :
                        /\ games[id].returned[i].status = "launched"
                        /\ \E k \in DOMAIN playlist' :
                              playlist'[k] = [client |-> games[id].returned[i].client,
                                              req |-> FALSE]
                        /\ nonblocking'[games[id].returned[i].client]]_vars

\* run_server_config has ended: it has returned, or its thread has panicked
Ended == server.main \in {"returned", "panicked"}

\* A remote Quit request waits for update_remote
QuitRequested == server.recv # <<>> /\ Head(server.recv)[2] = <<"Quit">>

\* C26: run_server_config ends after either shutdown trigger: a remote
\* Quit request, or the proxy listener failing, also when the remote
\* control server is enabled.
C26_Terminates ==
    (QuitRequested \/ server.proxy = "failed") ~> Ended

\* ------------------------------------------------------------------------
\* Claims about the Singleplayer mode and the playlist requests
\* ------------------------------------------------------------------------

\* A join request of a playlist client without pending_join, handled in
\* Singleplayer mode
SingleplayerJoin ==
    /\ up_i > 0
    /\ config.mode = "Singleplayer"
    /\ ~playlist[up_i].req
    /\ \E outcome \in StartOutcomes : UpdatePlaylistStep("JoinGame", outcome, 0)

\* C27: in Singleplayer mode a join request allocates a new lobby, attaches
\* the client and starts it: a game of that one participant and no computer
\* player runs under the new id, and the control loop goes on.
C27_SingleplayerJoinStarts ==
    [][SingleplayerJoin =>
          /\ sv_pc' = "loop"
          /\ id_counter' = next(id_counter)
          /\ DOMAIN games' = DOMAIN games \cup {GameKey(id_counter)}
          /\ games'[GameKey(id_counter)].players = <<playlist[up_i].client>>
          /\ games'[GameKey(id_counter)].computer_players = 0]_vars

\* C28: DropPlaylistItem(client_id) removes the client with that identifier
\* from the playlist and ClearPlaylist removes every client from it; lobbies
\* and games are as before.
C28_PlaylistRequests ==
    [][/\ \A c \in Clients :
            Handles(<<"DropPlaylistItem", c>>) =>
               /\ \A i \in DOMAIN playlist' : playlist'[i].client # c
               /\ lobbies' = lobbies /\ games' = games
       /\ Handles(<<"ClearPlaylist">>) =>
               /\ playlist' = <<>>
               /\ lobbies' = lobbies /\ games' = games]_vars

\* ------------------------------------------------------------------------
\* Claims about the Game task and its outcome vector
\* ------------------------------------------------------------------------

\* Game::run meets the panic of a Player task: it joins the handle of a
\* task that panicked, or finds the channel of the Players closed with
\* results still missing
MeetsPlayerPanic ==
    /\ \E i \in 1..g_players : p_st[i] = "panicked"
    /\ GameJoins \/ GameRxClosed

\* C29: when a Player task of the Game has panicked, Game::run does not
\* panic itself: it goes on to report a GameResult, the Player that
\* panicked missing among the Players it returns.
C29_PlayerPanicAbsorbed ==
    [][MeetsPlayerPanic =>
          /\ g_pc' # "panicked"
          /\ \A k \in DOMAIN g_result_players' : p_st[g_result_players'[k]] # "panicked"]_vars

\* The collection loop of Game::run processes a player-level terminal message
TerminalReceived ==
    /\ GameReceives
    /\ Head(rx).content \in Terminal

\* C30: a player-level terminal message from player i sets slot i of the
\* outcome vector to Defeat only if the slot is still empty; a slot that
\* holds an outcome is left as it is by every later terminal message.
C30_TerminalFillsEmptySlotOnly ==
    [][TerminalReceived =>
          \A j \in DOMAIN player_results :
              IF player_results[j] = "None"
              THEN player_results'[j] = IF j = Head(rx).player_index THEN "Defeat" ELSE "None"
              ELSE player_results'[j] = player_results[j]]_vars

\* C30: terminal messages of two Players have been processed, the second
\* while the slot of the first held its outcome
C30_Witness ==
    /\ g_players >= 2
    /\ player_results[1] = "Defeat" /\ player_results[2] = "Defeat"
    /\ p_st[1] # "running" /\ p_st[2] # "running"
    /\ rx = <<>>

\* ------------------------------------------------------------------------
\* C31: duplicate GameOver messages
\* ------------------------------------------------------------------------

\* The message ChannelToGame::send builds for GameOver(r) from Player i
GameOverMsg(i, r) == [player_index |-> i, content |-> "GameOver", results |-> r]

\* The values Game::run's player_results can hold for n players
OutcomeVectors(n) == [1..n -> PlayerResult \cup {"None"}]

\* A GameOver has been sent and not received yet
GameOverQueued == \E k \in DOMAIN rx : rx[k].content = "GameOver"

\* The collection loop takes a GameOver off rx
GameOverReceived == GameReceives /\ Head(rx).content = "GameOver"

\* Game::run has been entered and no message has been sent yet
RunEntered ==
    /\ g_pc = "loop"
    /\ rx = <<>>
    /\ \A i \in 1..g_players : p_st[i] = "running" /\ player_results[i] = "None"

\* C31: for every match a Game is entered with, processing GameOver(r) twice,
\* from the same or from different Players, leaves the outcome vector that
\* processing it once leaves, whatever the vector was; the first GameOver the Game receives ends the collection loop
\* with the reported results and without a panic, the loop is never entered
\* again and what is left in the channel is never read, so that a duplicate
\* causes no second GameResult.
C31_GameOverIdempotent ==
    /\ [](RunEntered =>
             \A v \in OutcomeVectors(g_players), r \in MatchOutcomes(g_players + g_computers) :
                \A i, j \in 1..g_players :
                   /\ ~process_msg_panics(GameOverMsg(i, r), v)
                   /\ process_msg(GameOverMsg(j, r), process_msg(GameOverMsg(i, r), v))
                         = process_msg(GameOverMsg(i, r), v))
    /\ [](Len(result_log) <= 1)
    /\ [](g_pc \notin {"loop", "idle"} => rx = <<>>)
    /\ [][/\ GameOverReceived =>
                /\ player_results' = Head(rx).results
                /\ g_pc' = "join"
                /\ result_log' = result_log
          /\ g_pc # "loop" => g_pc' # "loop" /\ player_results' = player_results]_vars

\* C31: two GameOver messages wait in the channel of a running Game
C31_Witness ==
    /\ g_pc = "loop"
    /\ Len(rx) = 2
    /\ rx[1].content = "GameOver" /\ rx[2].content = "GameOver"

\* ------------------------------------------------------------------------
\* C32: what update_playlist leaves alone
\* ------------------------------------------------------------------------

\* Supervisor::process_playlist_message: the PlaylistAction for a message, with
\* the response it carries; "Kick" stands for every message that is neither a
\* Quit, a Ping nor a JoinGame request
process_playlist_message(msg) ==
    CASE msg = "Quit" -> <<"RespondQuit", "Quit">>
      [] msg = "Ping" -> <<"Respond", "Pong">>
      [] msg = "JoinGame" -> <<"JoinGame">>
      [] OTHER -> <<"Kick">>

\* The events of update_playlist at which the entry stays: a would-block
\* read, and a message that is only responded to
KeepingEvents ==
    {ev \in PlaylistEvents :
        ev = "WouldBlock" \/ (ev # "Error" /\ process_playlist_message(ev)[1] = "Respond")}

\* One iteration of the loop of update_playlist
PlaylistPoll == up_i > 0 /\ up_i' # up_i

\* The entry polled is where it was, as it was
PolledEntryKept == up_i \in DOMAIN playlist' /\ playlist'[up_i] = playlist[up_i]

clients_reversed(pl) == [k \in 1..Len(pl) |-> pl[Len(pl) + 1 - k].client]

\* C33: whatever the playlist holds and whatever the iterations do (keep,
\* drop, join that removes, join that removes and pushes back), the pass
\* never indexes the playlist out of bounds, polls only entries the playlist
\* held at the start, from the last to the first, and has polled each of
\* them exactly once when it ends; an entry pushed back is not polled again.
C33_PassIndexSafe ==
    /\ pass.pc # "panicked"
    /\ pass.pc = "loop" => pass.i \in DOMAIN pass.playlist
    /\ pass.pc \in {"loop", "done"} =>
          /\ pass.polled = SubSeq(clients_reversed(pass.start), 1, Len(pass.start) - pass.i)
          /\ \A k \in 1..pass.i : pass.playlist[k] = pass.start[k]
    /\ pass.pc = "done" => pass.polled = clients_reversed(pass.start)

\* C33: a pass over three entries has ended after a removal and a push back
C33_Witness ==
    /\ pass.pc = "done"
    /\ Len(pass.start) = 3
    /\ Len(pass.playlist) = 2
    /\ \E k \in DOMAIN pass.playlist :
          pass.playlist[k].req /\ ~pass.start[pass.playlist[k].client].req

\* ------------------------------------------------------------------------
\* C34: the CreateGame request of the handshake
\* ------------------------------------------------------------------------

\* The positions of the frames of one kind in the handshake
FramesOf(kind) == {k \in DOMAIN lb_log : lb_log[k][1] = kind}

\* C34: the handshake sends at most one CreateGame request, exactly one once
\* create_game has passed its assertion; it is the first frame, it goes to the
\* engine of the first participant, its player setup lists the participants
\* and then the computer players, and its response is read before any
\* JoinGame request is sent to any engine.
C34_CreateGameOnceAndFirst ==
    /\ Cardinality(FramesOf("create_game")) <= 1
    /\ (lb_pc \in {"send", "recv", "started"} \/ lb_log # <<>>) =>
          /\ FramesOf("create_game") = {1}
          /\ lb_log[1][2] = 1
          /\ Len(lb_log[1][3]) = Len(lb_players) + lb_computers
          /\ \A k \in DOMAIN lb_log[1][3] :
                lb_log[1][3][k][1] = IF k <= Len(lb_players) THEN "Participant" ELSE "Computer"
          /\ \A k \in 1..lb_computers : lb_log[1][3][Len(lb_players) + k] = <<"Computer", k>>
          /\ FramesOf("create_game_response") = {2}
    /\ \A k \in FramesOf("join_game") : k > 2 /\ lb_log[2] = <<"create_game_response", TRUE>>

\* C34: a lobby of two participants and a computer player has started
C34_Witness ==
    /\ lb_pc = "started"
    /\ Len(lb_players) = 2 /\ lb_computers = 1
    /\ Cardinality(FramesOf("join_game")) = 2

\* ------------------------------------------------------------------------
\* C35: socket modes
\* ------------------------------------------------------------------------

\* The clients whose sockets Players own: in lobbies, in games, and held by
\* the Players a finished Game has returned
PlayerOwned ==
    UNION {Range(lobbies[id].players) : id \in DOMAIN lobbies}
       \cup UNION {Range(games[id].players) : id \in DOMAIN games}
       \cup UNION {{games[id].returned[k].client : k \in DOMAIN games[id].returned} :
                      id \in DOMAIN games}

\* C35: every client socket in the playlist is in non-blocking mode and
\* every client socket a Player owns, in a lobby or in a game, is in blocking
\* mode, whatever the Supervisor has done so far.
C35_SocketModes ==
    /\ \A i \in DOMAIN playlist : nonblocking[playlist[i].client]
    /\ \A c \in PlayerOwned : ~nonblocking[c]

\* C35: a survivor of a finished game waits in the playlist again while
\* the other client plays
C35_Witness ==
    /\ config.mode = "AgainstBuiltinAI"
    /\ created = <<0, 1>>
    /\ DOMAIN games = {1} /\ lobbies = EmptyMap
    /\ Len(playlist) = 1
    /\ incoming = {} /\ dropped = {} /\ detached = {}

\* ------------------------------------------------------------------------
\* C36: is_request_allowed
\* ------------------------------------------------------------------------

\* The requests read so far that carry a debug command other than a drawing
\* command
CheatRequests ==
    {k \in DOMAIN requests :
        requests[k].kind = "debug" /\ \E i \in DOMAIN requests[k].debug : requests[k].debug[i] # "draw"}

\* The error frames the proxy has sent to the client for denied requests
DenialFrames == {k \in DOMAIN client_frames : client_frames[k] = ErrorFrame}

\* C36: is_request_allowed has a boolean value for every limits and request;
\* it is FALSE exactly when disable_cheats is set, the request is a debug
\* request and a command of it is not a drawing command, and TRUE otherwise, in
\* particular whenever disable_cheats is unset and for a debug request without
\* commands; Player::run denies exactly the requests it is FALSE for.
C36_RequestAllowed ==
    /\ \A limits \in [disable_cheats : BOOLEAN], req \in ClientRequests :
          /\ is_request_allowed(limits, req) \in BOOLEAN
          /\ is_request_allowed(limits, req) =
                CASE ~limits.disable_cheats -> TRUE
                  [] req.kind # "debug" -> TRUE
                  [] req.debug = <<>> -> TRUE
                  [] OTHER -> \A i \in DOMAIN req.debug : req.debug[i] = "draw"
    /\ Cardinality(DenialFrames) =
          IF request_limits.disable_cheats THEN Cardinality(CheatRequests) ELSE 0

\* C36: with cheats disabled the client has sent a debug request with a
\* command that is not a drawing command, and one with drawing commands only
C36_Witness ==
    /\ request_limits.disable_cheats
    /\ Len(requests) = 2
    /\ Cardinality(CheatRequests) = 1
    /\ \E k \in DOMAIN requests : requests[k] = [kind |-> "debug", debug |-> <<"draw">>]

\* ------------------------------------------------------------------------
\* C37: the Game ends when its Players have returned
\* ------------------------------------------------------------------------

\* Every Player task of the Game has returned from Player::run
AllReturned == g_pc # "idle" /\ \A i \in 1..g_players : p_st[i] \in {"some", "none"}

\* Game::run has sent a GameResult with end_reason Normal
NormalSent == \E k \in DOMAIN result_log : result_log[k].end_reason = "Normal"

\* Supervisor::close has sent FromSupervisor::Quit to the Game
QuitSent == handle \in {"quit_sent", "dropped"}

\* A message of Player i waits in the channel
Queued(i) == \E k \in DOMAIN rx : rx[k].player_index = i

\* C37, as claimed: once every Player task has returned the Game sends a
\* Normal GameResult.
C37_ReturnedPlayersGetNormalResult == AllReturned ~> NormalSent

\* C37, amended: a Player that has returned has sent a message that fills
\* its slot (the slot is filled, or the message waits in the channel, or the
\* collection loop is over); the collection loop indexes no slot outside the
\* outcome vector; and once every Player task has returned the Game sends a
\* Normal GameResult unless the Supervisor has sent it Quit.
C37_ReturnedPlayersEndGame ==
    /\ [](\A i \in 1..g_players :
             p_st[i] \in {"some", "none"} /\ g_pc = "loop" =>
                (i \in DOMAIN player_results /\ player_results[i] # "None") \/ Queued(i))
    /\ [](g_pc = "loop" /\ rx # <<>> => ~process_msg_panics(Head(rx), player_results))
    /\ [](AllReturned /\ g_pc = "panicked" => QuitSent)
    /\ AllReturned ~> (NormalSent \/ QuitSent)

\* C37: both Players of a game have returned and the Game has sent its
\* Normal result to a Supervisor that has not asked it to quit
C37_Witness ==
    /\ g_players = 2 /\ AllReturned
    /\ g_pc = "done" /\ NormalSent
    /\ handle = "held"

\* ------------------------------------------------------------------------
\* C38: Supervisor::close and the games whose task has ended
\* ------------------------------------------------------------------------

\* C38: close() completes without a send failure whatever games the map
\* holds: every game in the map when close() runs, one whose task has ended
\* and which has not been collected included, is sent FromSupervisor::Quit,
\* and the control loop ends closed.
C38_CloseReachesEveryGame ==
    [][QuitTick =>
          /\ sv_pc' # "panicked"
          /\ \A id \in DOMAIN games : games'[id].quit]_vars

\* ------------------------------------------------------------------------
\* Claims about the request and response channels of the remote control
\* ------------------------------------------------------------------------

\* The step in which update_remote sends a Response
Responds == Len(server'.send) > Len(server.send)

\* The step in which rx_send.recv() hands the thread a Response
TakesResponse == Len(server'.send) < Len(server.send)

\* C39: at most one request is outstanding between the remote control thread
\* and the Supervisor: the two channels hold one message between them at
\* most, and none unless the thread waits in rx_send.recv(); a Response is
\* sent only for the request read from the connection being served, while the
\* thread waits for it; until the thread takes it no line is read and no
\* connection accepted, and the thread takes it for the connection it still
\* serves, whether the write then succeeds or fails.
C39_OneOutstandingRequest ==
    /\ [](Len(server.recv) + Len(server.send) <= 1)
    /\ [](server.pc # "wait" => server.recv = <<>> /\ server.send = <<>>)
    /\ [][Responds =>
            /\ server.pc = "wait"
            /\ server.recv # <<>>
            /\ Head(server.recv)[1] = server.conn
            /\ server'.recv = <<>>
            /\ server'.conn = server.conn]_vars
    /\ [][server.send # <<>> =>
            /\ server'.lines = server.lines
            /\ server'.served = server.served
            /\ server'.send # <<>> => server'.conn = server.conn]_vars
    /\ [][TakesResponse =>
            /\ server.conn # 0
            /\ server'.send = <<>>
            /\ \/ server'.written = Append(server.written, <<server.conn, Head(server.send)>>)
               \/ server'.lost = Append(server.lost, <<server.conn, Head(server.send)>>)]_vars

\* C39: the first connection failed between its request and the write of the
\* Response, which was taken from the channel and lost; the second connection
\* was accepted with both channels empty, and its request has been answered
\* to it
C39_Witness ==
    /\ server.lost = <<<<1, <<"Ping", 7>>>>>>
    /\ server.written = <<<<2, <<"Ping", 7>>>>>>
    /\ server.pc = "read"
    /\ server.conn = 2

\* ------------------------------------------------------------------------
\* Claims about StartGame and the lobby it names
\* ------------------------------------------------------------------------

\* The tick of run_server_config in which update_remote takes a request
TakesRequest == remote.recv # <<>> /\ remote'.recv = Tail(remote.recv)

\* The request update_remote takes in that tick
Taken == Head(remote.recv)

\* update_remote answers the request it takes with the Response r
AnswersWith(r) == remote'.send = Append(remote.send, r)

\* game_id named a lobby once and names none now: create_lobby allocated it,
\* and StartGame or close() has taken the lobby out of the map
Consumed(game_id) ==
    /\ game_id \in Range(created)
    /\ game_id \notin DOMAIN lobbies

\* client_id names a playlist entry with a pending join request
ReadyInPlaylist(client_id) ==
    \E i \in DOMAIN playlist : playlist[i].client = client_id /\ playlist[i].req

\* C40: StartGame(game_id) consumes its lobby on every outcome: after the
\* tick that takes the request game_id names no lobby, and it is answered
\* StartGame, Error("The lobby is empty") or Error("Game start failed") only
\* if it named one before; an id create_lobby has allocated never names a
\* new lobby; StartGame with a consumed id is answered Error("No such game")
\* and changes nothing, and AddToLobby with a consumed id and a ready client
\* is answered Error("No such game") and drops the client from the playlist.
C40_StartGameConsumesLobby ==
    /\ [](DOMAIN lobbies \subseteq Range(created))
    /\ [][\/ remote'.recv = remote.recv /\ lobbies' = lobbies
          \/ /\ \A id \in DOMAIN lobbies' : id \in Range(created) => id \in DOMAIN lobbies
             /\ (TakesRequest /\ Taken[1] = "StartGame") =>
                   /\ Taken[2] \notin DOMAIN lobbies'
                   /\ \A r \in {<<"StartGame">>, <<"Error", "The lobby is empty">>,
                                <<"Error", "Game start failed">>} :
                         AnswersWith(r) => /\ Taken[2] \in DOMAIN lobbies
                                           /\ Taken[2] \in Range(created')
                   /\ Consumed(Taken[2]) =>
                         /\ AnswersWith(<<"Error", "No such game">>)
                         /\ UNCHANGED svVars
             /\ (/\ TakesRequest
                 /\ Taken[1] = "AddToLobby"
                 /\ Consumed(Taken[2])
                 /\ ReadyInPlaylist(Taken[3])) =>
                   /\ AnswersWith(<<"Error", "No such game">>)
                   /\ Taken[3] \in dropped'
                   /\ \A i \in DOMAIN playlist' : playlist'[i].client # Taken[3]
                   /\ Len(playlist') = Len(playlist) - 1
                   /\ UNCHANGED <<lobbies, games>>]_vars

\* C40: lobby 0 was started as game 0 with client 1 and StartGame answered;
\* AddToLobby(0, 2) for the ready client 2 is now with the Supervisor
C40_Witness ==
    /\ remote.recv = <<<<"AddToLobby", 0, 2>>>>
    /\ remote.send = <<>>
    /\ sv_pc = "loop"
    /\ 0 \in DOMAIN games
    /\ games[0].players = <<1>>
    /\ Consumed(0)
    /\ ReadyInPlaylist(2)
====
